---- MODULE Spec2Model ----
(***************************************************************************)
(* Order retry controller (src/src/order/order_manager.py) and batch       *)
(* orchestrator (src/src/bot/trading_bot.py) of the options trading bot.   *)
(*                                                                         *)
(* Python values are represented as follows.                               *)
(*   str            a TLA+ string                                          *)
(*   Optional[x]    None is << >>, a present value v is <<v>>              *)
(*   float strikes  whole dollars, as integers                             *)
(*   date           days relative to date.today() (0 is today)             *)
(*   exception      [type |-> class name, msg |-> str(e)]                  *)
(***************************************************************************)
EXTENDS Integers, Sequences, FiniteSets, TLC

VARIABLES
    dry_run,        \* OrderManager.dry_run / TradingBot.dry_run
    rpc,            \* position inside OrderManager.retry_order
    order,          \* the SpreadOrder passed to retry_order
    max_retries,    \* the max_retries argument of retry_order
    attempt,        \* local variable attempt of retry_order
    last_error,     \* local variable last_error of retry_order
    result,         \* the OrderResult returned by retry_order
    calls,          \* history: broker_client.submit_spread_order calls of this run
    sleeps,         \* history: the time.sleep durations of this run, in order
    outcomes,       \* history: what each attempt of this run ended in
    last_broker,    \* history: what the broker did on the latest attempt
    _initialized,   \* TradingBot._initialized
    config,         \* TradingBot.config: symbols, strategy, broker_type
    cpc,            \* position inside TradingBot.execute_trading_cycle
    valid_symbols,  \* local variable valid_symbols of execute_trading_cycle
    invalid_symbols, \* local variable invalid_symbols of execute_trading_cycle
    trade_results,  \* local variable trade_results of execute_trading_cycle
    summary,        \* the ExecutionSummary returned by execute_trading_cycle
    cycle_error,    \* the exception execute_trading_cycle raised to its caller
    submit_calls,   \* history: broker submit_*_order calls made during the cycle
    processed,      \* history: per processed symbol, what its processing produced
    price_checks,   \* history: per validated symbol, how the price check of _validate_symbol went
    call,           \* a calculator method under call: its name and arguments
    ret             \* what the calculator method under call returned or raised

retry_vars == <<dry_run, rpc, order, max_retries, attempt, last_error, result,
                calls, sleeps, outcomes, last_broker>>

cycle_vars == <<_initialized, config, cpc, valid_symbols, invalid_symbols,
                trade_results, summary, cycle_error, submit_calls, processed,
                price_checks>>

calc_vars == <<call, ret>>

vars == <<retry_vars, cycle_vars, calc_vars>>

\* No calculator method is under call.
NoCall == [method |-> "none"]
NoReturn == [kind |-> "none"]
CalcUnused == call = NoCall /\ ret = NoReturn

(***************************************************************************)
(* Bounds of the model.                                                    *)
(***************************************************************************)
MaxRetriesBound == 3    \* retry_order is called with max_retries in 0..MaxRetriesBound

(***************************************************************************)
(* Python built-ins.                                                       *)
(***************************************************************************)
None == << >>
Some(v) == <<v>>

UpperChars == "ABCDEFGHIJKLMNOPQRSTUVWXYZ"
LowerChars == "abcdefghijklmnopqrstuvwxyz"
DigitChars == "0123456789"

CharAt(s, i) == SubSeq(s, i, i)
IsCharOf(c, alphabet) == \E i \in 1..Len(alphabet) : CharAt(alphabet, i) = c

\* str.lower() on one character
lower_char(c) ==
    IF IsCharOf(c, UpperChars)
    THEN CharAt(LowerChars, CHOOSE i \in 1..Len(UpperChars) : CharAt(UpperChars, i) = c)
    ELSE c

\* str.lower()
RECURSIVE lower(_)
lower(s) == IF s = "" THEN "" ELSE lower_char(CharAt(s, 1)) \o lower(SubSeq(s, 2, Len(s)))

\* Python's `sub in s` on strings
Contains(s, sub) ==
    \E i \in 1..(Len(s) - Len(sub) + 1) : SubSeq(s, i, i + Len(sub) - 1) = sub

\* str.isupper(): at least one cased character and no lowercase character
isupper(s) ==
    /\ \E i \in 1..Len(s) : IsCharOf(CharAt(s, i), UpperChars)
    /\ \A i \in 1..Len(s) : ~IsCharOf(CharAt(s, i), LowerChars)

\* str.isalpha(): non-empty and letters only
isalpha(s) ==
    /\ Len(s) > 0
    /\ \A i \in 1..Len(s) : IsCharOf(CharAt(s, i), UpperChars \o LowerChars)

\* str.strip(): leading and trailing blanks removed
RECURSIVE lstrip(_)
lstrip(s) == IF s # "" /\ CharAt(s, 1) = " " THEN lstrip(SubSeq(s, 2, Len(s))) ELSE s
RECURSIVE rstrip(_)
rstrip(s) == IF s # "" /\ CharAt(s, Len(s)) = " " THEN rstrip(SubSeq(s, 1, Len(s) - 1)) ELSE s
strip(s) == rstrip(lstrip(s))

\* str() of a non-negative int, of an int, of a whole float, of a date, of an Optional[str]
RECURSIVE str_nat(_)
str_nat(n) == IF n < 10 THEN CharAt(DigitChars, n + 1)
              ELSE str_nat(n \div 10) \o CharAt(DigitChars, (n % 10) + 1)
str_int(n) == IF n < 0 THEN "-" \o str_nat(0 - n) ELSE str_nat(n)
str_float(x) == str_int(x) \o ".0"
str_date(d) == IF d < 0 THEN "today-" \o str_nat(0 - d) ELSE "today+" \o str_nat(d)
str_optional(o) == IF o = None THEN "None" ELSE o[1]

RECURSIVE pow2(_)
pow2(n) == IF n <= 0 THEN 1 ELSE 2 * pow2(n - 1)

(***************************************************************************)
(* base_client.py: OrderResult and SpreadOrder.                            *)
(***************************************************************************)
OrderResult(success, order_id, status, error_message) ==
    [success |-> success, order_id |-> order_id, status |-> status,
     error_message |-> error_message]

SpreadOrder(symbol, short_strike, long_strike, expiration, quantity, quantity_type) ==
    [symbol |-> symbol, short_strike |-> short_strike, long_strike |-> long_strike,
     expiration |-> expiration, quantity |-> quantity, quantity_type |-> quantity_type]

NoOrder == SpreadOrder("", 0, 0, 0, 0, "int")
NoResult == OrderResult(FALSE, None, "none", None)
NoBroker == [kind |-> "none"]

(***************************************************************************)
(* OrderManager.validate_order: (is_valid, error_message).                 *)
(***************************************************************************)
validate_order_unchecked(o) == <<TRUE, None>>
validate_order(o) ==
    IF o.symbol = "" \/ strip(o.symbol) = "" THEN
        <<FALSE, Some("Symbol cannot be empty")>>
    ELSE IF ~isupper(o.symbol) THEN
        <<FALSE, Some("Symbol '" \o o.symbol \o "' must be uppercase")>>
    ELSE IF o.short_strike <= 0 THEN
        <<FALSE, Some("Short strike must be positive")>>
    ELSE IF o.long_strike <= 0 THEN
        <<FALSE, Some("Long strike must be positive")>>
    ELSE IF o.short_strike <= o.long_strike THEN
        <<FALSE, Some("Short strike (" \o str_float(o.short_strike)
                      \o ") must be higher than long strike ("
                      \o str_float(o.long_strike) \o ") for put credit spread")>>
    ELSE IF o.short_strike - o.long_strike <= 0 THEN
        <<FALSE, Some("Spread width must be positive")>>
    ELSE IF o.quantity <= 0 THEN
        <<FALSE, Some("Quantity must be positive")>>
    ELSE IF o.quantity_type # "int" THEN
        <<FALSE, Some("Quantity must be an integer")>>
    ELSE IF o.expiration < 0 THEN
        <<FALSE, Some("Expiration date (" \o str_date(o.expiration)
                      \o ") must be in the future")>>
    ELSE
        <<TRUE, None>>

(***************************************************************************)
(* OrderManager._is_retryable_error.                                       *)
(***************************************************************************)
non_retryable_keywords ==
    <<"insufficient", "invalid strike", "invalid symbol", "not found",
      "unauthorized", "forbidden", "rejected">>

_is_retryable_error_case_sensitive(error_message) ==
    IF error_message = None \/ error_message = Some("") THEN TRUE
    ELSE ~\E k \in 1..Len(non_retryable_keywords) :
              Contains(error_message[1], non_retryable_keywords[k])
_is_retryable_error(error_message) ==
    IF error_message = None \/ error_message = Some("") THEN TRUE
    ELSE LET error_lower == lower(error_message[1])
         IN  ~\E k \in 1..Len(non_retryable_keywords) :
                  Contains(error_lower, non_retryable_keywords[k])

(***************************************************************************)
(* Inputs of retry_order: the orders it is called with and what the broker *)
(* client's submit_spread_order can do (return an OrderResult or raise).   *)
(***************************************************************************)
OrderSymbols == {"", " ", "ab", "Ab", "A1", "AB"}
OrderShortStrikes == {0 - 5, 0, 90, 95}
OrderLongStrikes == {0, 90, 95}
OrderExpirations == {0 - 1, 0, 7}
OrderQuantities == {0 - 1, 0, 1, 2}
OrderQuantityTypes == {"int", "float"}

Orders ==
    { SpreadOrder(s, ss, ls, e, q, qt) :
        s \in OrderSymbols, ss \in OrderShortStrikes, ls \in OrderLongStrikes,
        e \in OrderExpirations, q \in OrderQuantities, qt \in OrderQuantityTypes }

TerminalMessages ==
    {"Insufficient buying power", "INVALID STRIKE price", "Invalid Symbol XYZ",
     "Option Not Found", "401 Unauthorized", "403 forbidden", "Order rejected: 400"}
RetryableMessages == {"timeout", "Connection reset", ""}
ExceptionMessages == {"socket closed", "Insufficient funds"}

Returned(r) == [kind |-> "return", result |-> r]
Raised(type, msg) == [kind |-> "raise", exc |-> [type |-> type, msg |-> msg]]

SubmitSpreadOutcomes ==
    {Returned(OrderResult(TRUE, Some("ord-1"), Some("accepted"), None)),
     Returned(OrderResult(TRUE, None, Some("ok"), None)),
     Returned(OrderResult(FALSE, None, Some("error"), None))}
    \cup { Returned(OrderResult(FALSE, None, Some("rejected"), Some(m))) :
             m \in TerminalMessages \cup RetryableMessages }
    \cup { Raised("ConnectionError", m) : m \in ExceptionMessages }

\* History only: how an attempt ended, in the words of the retry contract.
HasTerminalKeyword(error_message) ==
    /\ error_message # None
    /\ \E k \in 1..Len(non_retryable_keywords) :
           Contains(lower(error_message[1]), non_retryable_keywords[k])

AttemptKind(outcome) ==
    IF outcome.kind = "raise" THEN "raised"
    ELSE IF outcome.result.success THEN "success"
    ELSE IF HasTerminalKeyword(outcome.result.error_message) THEN "terminal"
    ELSE "retryable"

(***************************************************************************)
(* OrderManager.retry_order, one action per step of the method.            *)
(***************************************************************************)
RetryInit ==
    /\ dry_run \in BOOLEAN
    /\ rpc = "idle"
    /\ order = NoOrder
    /\ max_retries = 0
    /\ attempt = 0
    /\ last_error = None
    /\ result = NoResult
    /\ calls = 0
    /\ sleeps = << >>
    /\ outcomes = << >>
    /\ last_broker = NoBroker

\* lines 139-164: validation, then attempt = 0 and last_error = None
RetryOrderCall(o, n) ==
    /\ rpc = "idle"
    /\ order' = o
    /\ max_retries' = n
    /\ attempt' = 0
    /\ last_error' = None
    /\ calls' = 0
    /\ sleeps' = << >>
    /\ outcomes' = << >>
    /\ last_broker' = NoBroker
    /\ LET v == validate_order(o)
       IN  IF ~v[1]
           THEN /\ result' = OrderResult(FALSE, None, Some("validation_failed"), v[2])
                /\ rpc' = "returned"
           ELSE /\ result' = NoResult
                /\ rpc' = "while"
    /\ UNCHANGED dry_run
    /\ UNCHANGED <<cycle_vars, calc_vars>>

\* lines 166-167: the loop test succeeds and attempt is incremented
AttemptBegin_one_more ==
    /\ rpc = "while"
    /\ attempt <= max_retries
    /\ attempt' = attempt + 1
    /\ rpc' = "try"
    /\ UNCHANGED <<dry_run, order, max_retries, last_error, result, calls, sleeps,
                   outcomes, last_broker>>
    /\ UNCHANGED <<cycle_vars, calc_vars>>
AttemptBegin ==
    /\ rpc = "while"
    /\ attempt < max_retries
    /\ attempt' = attempt + 1
    /\ rpc' = "try"
    /\ UNCHANGED <<dry_run, order, max_retries, last_error, result, calls, sleeps,
                   outcomes, last_broker>>
    /\ UNCHANGED <<cycle_vars, calc_vars>>

\* line 280: the error message of the exhausted result
exhausted_message_without_error(n, err) == "Failed after " \o str_int(n) \o " attempts."
exhausted_message(n, err) ==
    "Failed after " \o str_int(n) \o " attempts. Last error: " \o str_optional(err)

\* lines 266-281: the loop test fails
RetriesExhausted ==
    /\ rpc = "while"
    /\ ~(attempt < max_retries)
    /\ result' = OrderResult(FALSE, None, Some("max_retries_exceeded"),
                             Some(exhausted_message(max_retries, last_error)))
    /\ rpc' = "returned"
    /\ UNCHANGED <<dry_run, order, max_retries, attempt, last_error, calls, sleeps,
                   outcomes, last_broker>>
    /\ UNCHANGED <<cycle_vars, calc_vars>>

\* lines 170-189 and 205-215: dry-run simulates a successful submission
SubmitSimulated_through_broker ==
    /\ rpc = "try"
    /\ dry_run
    /\ calls' = calls + 1
    /\ result' = OrderResult(TRUE, Some("ord-1"), Some("accepted"), None)
    /\ outcomes' = Append(outcomes, "success")
    /\ rpc' = "returned"
    /\ UNCHANGED <<dry_run, order, max_retries, attempt, last_error, sleeps, last_broker>>
    /\ UNCHANGED <<cycle_vars, calc_vars>>
SubmitSimulated ==
    /\ rpc = "try"
    /\ dry_run
    /\ result' = OrderResult(TRUE, Some("DRY-RUN-" \o order.symbol \o "-timestamp"),
                             Some("simulated"), None)
    /\ outcomes' = Append(outcomes, "simulated")
    /\ rpc' = "returned"
    /\ UNCHANGED <<dry_run, order, max_retries, attempt, last_error, calls, sleeps,
                   last_broker>>
    /\ UNCHANGED <<cycle_vars, calc_vars>>

\* line 238 and line 259: 2 ** (attempt - 1)
backoff_time_linear(a) == 2 * a - 1
backoff_time(a) == pow2(a - 1)

\* lines 190-264: the broker is called; its result or exception is handled
SubmitToBroker_classifying_exceptions(outcome) ==
    /\ rpc = "try"
    /\ ~dry_run
    /\ calls' = calls + 1
    /\ last_broker' = outcome
    /\ outcomes' = Append(outcomes, AttemptKind(outcome))
    /\ LET failure == IF outcome.kind = "return" THEN outcome.result
                      ELSE OrderResult(FALSE, None, Some("error"), Some(outcome.exc.msg))
       IN  IF failure.success
           THEN /\ result' = failure
                /\ rpc' = "returned"
                /\ UNCHANGED last_error
           ELSE /\ last_error' = failure.error_message
                /\ IF ~_is_retryable_error(failure.error_message)
                   THEN /\ result' = failure
                        /\ rpc' = "returned"
                   ELSE /\ rpc' = IF attempt < max_retries THEN "sleep" ELSE "while"
                        /\ UNCHANGED result
    /\ UNCHANGED <<dry_run, order, max_retries, attempt, sleeps>>
    /\ UNCHANGED <<cycle_vars, calc_vars>>
SubmitToBroker(outcome) ==
    /\ rpc = "try"
    /\ ~dry_run
    /\ calls' = calls + 1
    /\ last_broker' = outcome
    /\ outcomes' = Append(outcomes, AttemptKind(outcome))
    /\ IF outcome.kind = "return"
       THEN IF outcome.result.success
            THEN /\ result' = outcome.result
                 /\ rpc' = "returned"
                 /\ UNCHANGED last_error
            ELSE /\ last_error' = outcome.result.error_message
                 /\ IF ~_is_retryable_error(outcome.result.error_message)
                    THEN /\ result' = outcome.result
                         /\ rpc' = "returned"
                    ELSE /\ rpc' = IF attempt < max_retries THEN "sleep" ELSE "while"
                         /\ UNCHANGED result
       ELSE /\ last_error' = Some(outcome.exc.msg)
            /\ rpc' = IF attempt < max_retries THEN "sleep" ELSE "while"
            /\ UNCHANGED result
    /\ UNCHANGED <<dry_run, order, max_retries, attempt, sleeps>>
    /\ UNCHANGED <<cycle_vars, calc_vars>>

\* lines 243 and 264: time.sleep(backoff_time)
BackoffSleep ==
    /\ rpc = "sleep"
    /\ sleeps' = Append(sleeps, backoff_time(attempt))
    /\ rpc' = "while"
    /\ UNCHANGED <<dry_run, order, max_retries, attempt, last_error, result, calls,
                   outcomes, last_broker>>
    /\ UNCHANGED <<cycle_vars, calc_vars>>

NextRetry ==
    \/ \E o \in Orders, n \in 0..MaxRetriesBound : RetryOrderCall(o, n)
    \/ AttemptBegin
    \/ RetriesExhausted
    \/ SubmitSimulated
    \/ \E outcome \in SubmitSpreadOutcomes : SubmitToBroker(outcome)
    \/ BackoffSleep

(***************************************************************************)
(* Properties of retry_order (checked under SpecRetry).                    *)
(***************************************************************************)
AllAttemptsRetryable == \A i \in 1..Len(outcomes) : outcomes[i] = "retryable"

LastBrokerMessage == last_broker.result.error_message

\* C1: for max_retries >= 1 and a valid order, when the broker returns a
\* retryable failure on every attempt, retry_order calls the broker exactly
\* max_retries times and sleeps exactly max_retries - 1 times, the k-th sleep
\* lasting 2^(k-1) seconds, with no sleep after the last attempt.
C1_RetryableFailuresUseAllAttempts ==
    (/\ rpc # "idle"
     /\ validate_order(order)[1]
     /\ max_retries >= 1
     /\ ~dry_run
     /\ AllAttemptsRetryable)
    => /\ calls = Len(outcomes)
       /\ calls <= max_retries
       /\ Len(sleeps) <= max_retries - 1
       /\ Len(sleeps) <= calls
       /\ \A k \in 1..Len(sleeps) : sleeps[k] = pow2(k - 1)
       /\ rpc = "returned" => /\ calls = max_retries
                              /\ Len(sleeps) = max_retries - 1

C1_Witness ==
    /\ rpc = "returned"
    /\ ~dry_run
    /\ max_retries = 3
    /\ outcomes = <<"retryable", "retryable", "retryable">>
    /\ calls = 3
    /\ sleeps = <<1, 2>>

\* C2: when the broker returns a failed result whose error message contains,
\* case-insensitively, one of the terminal keywords, retry_order makes no
\* further attempt and no sleep and returns that broker result, whatever
\* max_retries is and whichever attempt the failure occurs on.
C2_TerminalFailureStopsRetrying ==
    (/\ last_broker.kind = "return"
     /\ ~last_broker.result.success
     /\ HasTerminalKeyword(LastBrokerMessage))
    => /\ rpc = "returned"
       /\ result = last_broker.result
       /\ calls = attempt
       /\ Len(sleeps) = attempt - 1

C2_Witness ==
    /\ rpc = "returned"
    /\ max_retries = 3
    /\ attempt = 2
    /\ last_broker.kind = "return"
    /\ LastBrokerMessage = Some("INVALID STRIKE price")
    /\ result = last_broker.result
    /\ calls = 2
    /\ sleeps = <<1>>

\* The orders the retry contract calls invalid.
InvalidByContract(o) ==
    \/ o.symbol = ""
    \/ ~isupper(o.symbol)
    \/ o.short_strike <= 0
    \/ o.long_strike <= 0
    \/ o.short_strike <= o.long_strike
    \/ o.quantity <= 0
    \/ o.expiration < 0

\* C3: retry_order never calls the broker for an order that fails
\* validate_order: the result is a failure with status 'validation_failed'
\* carrying the reason, with zero attempts and zero sleeps.
C3_InvalidOrderNeverReachesBroker ==
    (rpc # "idle" /\ InvalidByContract(order))
    => /\ rpc = "returned"
       /\ calls = 0
       /\ attempt = 0
       /\ sleeps = << >>
       /\ outcomes = << >>
       /\ result.success = FALSE
       /\ result.order_id = None
       /\ result.status = Some("validation_failed")
       /\ result.error_message # None
       /\ result.error_message[1] # ""

C3_Witness ==
    /\ rpc = "returned"
    /\ ~dry_run
    /\ order = SpreadOrder("AB", 95, 90, 0 - 1, 1, "int")
    /\ result = OrderResult(FALSE, None, Some("validation_failed"),
                            Some("Expiration date (today-1) must be in the future"))
    /\ calls = 0

\* C5: when all max_retries attempts end in retryable failures, the returned
\* result has success = false, no order id, status 'max_retries_exceeded',
\* and an error message that contains the error message of the last attempt.
C5_ExhaustedResultCarriesLastError ==
    (/\ rpc = "returned"
     /\ max_retries >= 1
     /\ Len(outcomes) = max_retries
     /\ AllAttemptsRetryable)
    => /\ result.success = FALSE
       /\ result.order_id = None
       /\ result.status = Some("max_retries_exceeded")
       /\ result.error_message # None
       /\ Contains(result.error_message[1], "Last error: " \o str_optional(LastBrokerMessage))
       /\ last_error = LastBrokerMessage

C5_Witness ==
    /\ rpc = "returned"
    /\ max_retries = 2
    /\ outcomes = <<"retryable", "retryable">>
    /\ LastBrokerMessage = Some("Connection reset")
    /\ result = OrderResult(FALSE, None, Some("max_retries_exceeded"),
                            Some("Failed after 2 attempts. Last error: Connection reset"))

(***************************************************************************)
(* TradingBot (src/src/bot/trading_bot.py): data of a trading cycle.       *)
(* TradeResult keeps the fields the summary counts and reports on; strikes,*)
(* expiration, quantity and timestamps are left out.                       *)
(***************************************************************************)
MaxSymbols == 2     \* config.symbols holds 1..MaxSymbols symbols

TradeResult(symbol, success, order_id, error_message) ==
    [symbol |-> symbol, success |-> success, order_id |-> order_id,
     error_message |-> error_message]

ExecutionSummary(total_symbols, successful_trades, failed_trades, results) ==
    [total_symbols |-> total_symbols, successful_trades |-> successful_trades,
     failed_trades |-> failed_trades, trade_results |-> results]

NoSummary == ExecutionSummary(0, 0, 0, << >>)

\* Config.validate accepts every non-empty upper-case alphabetic symbol, of any length.
ConfigSymbols == {"AA", "BB", "GOOGLE"}
Strategies == {"pcs", "cs", "cc", "ws", "lcc", "dc", "bf", "mp", "ls", "ib", "ss", "ic"}
BrokerTypes == {"alpaca", "tradier"}

RECURSIVE SeqsUpTo(_, _)
SeqsUpTo(S, n) ==
    IF n = 0 THEN {<< >>}
    ELSE LET shorter == SeqsUpTo(S, n - 1)
         IN  shorter \cup { Append(q, x) : q \in { r \in shorter : Len(r) = n - 1 }, x \in S }

\* A watchlist names each symbol once.
Distinct(q) == \A i, j \in 1..Len(q) : i # j => q[i] # q[j]

Configs ==
    { [symbols |-> syms, strategy |-> st, broker_type |-> bt] :
        syms \in { q \in SeqsUpTo(ConfigSymbols, MaxSymbols) : Len(q) >= 1 /\ Distinct(q) },
        st \in Strategies, bt \in BrokerTypes }

NoConfig == [symbols |-> << >>, strategy |-> "pcs", broker_type |-> "alpaca"]

\* Config defaults of the laddered covered call (coverage_ratio in thousandths).
laddered_coverage_ratio == 667
laddered_num_legs == 5

(***************************************************************************)
(* The broker clients, as the cycle sees them.                             *)
(*   get_position       a Position or None; never raises                   *)
(*   get_current_price  a positive price, or raises                        *)
(*   get_option_chain   a chain, or raises ValueError                      *)
(*   submit_*_order     an OrderResult; never raises                       *)
(***************************************************************************)
PositionShares == {50, 100, 300}
Positions == {None} \cup { Some(q) : q \in PositionShares }

PriceOutcomes ==
    {Returned(100),
     Raised("ValueError", "Price data unavailable"),
     Raised("ConnectionError", "timeout")}

\* "strikes": a chain in which the calculator finds its strikes;
\* "no_strike": a chain in which it finds none and raises ValueError.
ChainOutcomes ==
    {Returned("strikes"), Returned("no_strike"),
     Raised("ValueError", "Option chain unavailable")}

StrikeSelection(chain) ==
    IF chain.kind = "raise" THEN chain
    ELSE IF chain.result = "no_strike" THEN Raised("ValueError", "No strikes available")
    ELSE Returned("strikes")

\* TradierClient returns order_id None on a 2xx response without an order id.
TradierSingleOrderMethods ==
    {"submit_spread_order", "submit_covered_call_order",
     "submit_cash_secured_put_order", "submit_butterfly_order"}

\* Results that carry the ids of the legs that were submitted before a leg failed.
PartialFillMethods(broker_type) ==
    IF broker_type = "alpaca"
    THEN {"submit_iron_butterfly_order", "submit_iron_condor_order"}
    ELSE {"submit_double_calendar_order"}

\* Methods the trading bot calls that TradierClient does not define.
TradierMissingMethods ==
    {"submit_iron_butterfly_order", "submit_short_strangle_order", "submit_iron_condor_order"}

BrokerSubmitOutcomes(broker_type, method) ==
    IF broker_type = "tradier" /\ method \in TradierMissingMethods
    THEN {Raised("AttributeError", "'TradierClient' object has no attribute '" \o method \o "'")}
    ELSE {Returned(OrderResult(TRUE, Some("ord-1"), Some("submitted"), None)),
          Returned(OrderResult(FALSE, None, Some("rejected"), Some("Order rejected: 400"))),
          Returned(OrderResult(FALSE, None, Some("error"), Some("")))}
         \cup (IF broker_type = "tradier" /\ method \in TradierSingleOrderMethods
               THEN {Returned(OrderResult(TRUE, None, Some("submitted"), None))}
               ELSE {})
         \cup (IF method \in PartialFillMethods(broker_type)
               THEN {Returned(OrderResult(FALSE, Some("leg-1"), Some("partial"),
                                          Some("Only 1/4 legs submitted")))}
               ELSE {})

(***************************************************************************)
(* The strategy processors.  Each takes the symbol and what the broker     *)
(* does for it, and yields                                                 *)
(*   results   the TradeResults the processor returns                      *)
(*   submits   the broker submit_*_order calls it made                     *)
(*   raised    whether a call made for the symbol raised                   *)
(***************************************************************************)
Processed(results, submits, raised) ==
    [results |-> results, submits |-> submits, raised |-> raised]

unexpected_error(exc) == "Unexpected error: " \o exc.type \o ": " \o exc.msg

FailedResult(symbol, error_msg) == TradeResult(symbol, FALSE, None, Some(error_msg))

\* TradeResult(success=order_result.success, order_id=order_result.order_id,
\*             error_message=order_result.error_message)
PassedThrough(symbol, r) == TradeResult(symbol, r.success, r.order_id, r.error_message)

\* if order_result.success: ... else: ...
Branched(symbol, r) ==
    IF r.success
    THEN TradeResult(symbol, TRUE, r.order_id, None)
    ELSE TradeResult(symbol, FALSE, None, r.error_message)

\* The price and chain fetches and the strike selection common to the processors:
\* the first exception raised, if any.
FirstFailure(price, chain) ==
    IF price.kind = "raise" THEN price
    ELSE StrikeSelection(chain)

\* The TradeResult a processor builds from the broker's OrderResult: some copy
\* its fields, the others branch on order_result.success.
Report(how, symbol, r) ==
    IF how = "branched" THEN Branched(symbol, r) ELSE PassedThrough(symbol, r)

\* The broker call and the TradeResult built from it; a method the client lacks
\* raises AttributeError inside the processor's try block.
SubmitAndReport(symbol, submit, how) ==
    IF submit.kind = "raise"
    THEN Processed(<<FailedResult(symbol, unexpected_error(submit.exc))>>, 0, TRUE)
    ELSE Processed(<<Report(how, symbol, submit.result)>>, 1, FALSE)

\* A processor without a position check.
PricedProcessor(symbol, b, how) ==
    LET f == FirstFailure(b.price, b.chain)
    IN  IF f.kind = "raise"
        THEN Processed(<<FailedResult(symbol, unexpected_error(f.exc))>>, 0, TRUE)
        ELSE SubmitAndReport(symbol, b.submit, how)

\* date.weekday(), dates being day numbers and day 0 a Monday
weekday(d) == d % 7

\* StrategyCalculator.calculate_expiration_date
calculate_expiration_date_same_week(execution_date, offset_weeks) ==
    IF offset_weeks <= 0 THEN Raised("ValueError", "Offset weeks must be positive")
    ELSE LET target_date == execution_date + 7 * (offset_weeks - 1)
         IN  Returned(target_date + ((4 - weekday(target_date)) % 7))
calculate_expiration_date(execution_date, offset_weeks) ==
    IF offset_weeks <= 0 THEN Raised("ValueError", "Offset weeks must be positive")
    ELSE LET target_date == execution_date + 7 * offset_weeks
             days_until_friday == (4 - weekday(target_date)) % 7
         IN  IF weekday(target_date) = 4
             THEN Returned(target_date)
             ELSE Returned(target_date + days_until_friday)

\* Python's binding of a call's keyword arguments to the parameters of the callee
bind_keywords(callee, keywords, parameters) ==
    IF keywords \subseteq parameters THEN Returned(TRUE)
    ELSE Raised("TypeError", callee \o "() got an unexpected keyword argument '"
                             \o (CHOOSE k \in keywords \ parameters : TRUE) \o "'")

\* trading_bot.py lines 617-621: the keywords of the call, and strategy_calculator.py
\* line 50: the parameters of StrategyCalculator.calculate_short_strike
calculate_short_strike_keywords == {"current_price", "offset_percent", "offset_dollars"}
calculate_short_strike_parameters == {"current_price", "offset_percent"}

\* StrategyCalculator.calculate_short_strike: current_price * (1 - offset_percent / 100)
calculate_short_strike(current_price, offset_percent) ==
    IF current_price <= 0 THEN Raised("ValueError", "Current price must be positive")
    ELSE IF offset_percent <= 0 \/ offset_percent > 100
    THEN Raised("ValueError", "Offset percent must be between 0 and 100")
    ELSE Returned((current_price * (100 - offset_percent)) \div 100)

\* StrategyCalculator.calculate_long_strike
calculate_long_strike(short_strike, spread_width) ==
    IF short_strike <= 0 THEN Raised("ValueError", "Short strike must be positive")
    ELSE IF spread_width <= 0 THEN Raised("ValueError", "Spread width must be positive")
    ELSE IF spread_width >= short_strike
    THEN Raised("ValueError", "Spread width cannot be greater than or equal to short strike")
    ELSE Returned(short_strike - spread_width)

\* SpreadParameters.validate
SpreadParameters_validate(self, today) ==
    IF self.short_strike <= 0 THEN <<FALSE, Some("Short strike must be positive")>>
    ELSE IF self.long_strike <= 0 THEN <<FALSE, Some("Long strike must be positive")>>
    ELSE IF self.short_strike <= self.long_strike
    THEN <<FALSE, Some("Short strike must be greater than long strike for put credit spread")>>
    ELSE IF self.spread_width <= 0 THEN <<FALSE, Some("Spread width must be positive")>>
    ELSE IF (self.short_strike - self.long_strike) # self.spread_width
    THEN <<FALSE, Some("Actual spread width doesn't match configured spread width")>>
    ELSE IF self.expiration < today
    THEN <<FALSE, Some("Expiration date cannot be in the past")>>
    ELSE <<TRUE, None>>

\* Python sorted() of a list of numbers
RECURSIVE insert_sorted(_, _)
insert_sorted(x, xs) ==
    IF xs = << >> THEN <<x>>
    ELSE IF x <= xs[1] THEN <<x>> \o xs
    ELSE <<xs[1]>> \o insert_sorted(x, Tail(xs))

RECURSIVE sorted(_)
sorted(xs) == IF xs = << >> THEN << >> ELSE insert_sorted(xs[1], sorted(Tail(xs)))

\* Python max() of a non-empty list
RECURSIVE max(_)
max(xs) == IF Len(xs) = 1 THEN xs[1]
           ELSE LET m == max(Tail(xs)) IN IF xs[1] > m THEN xs[1] ELSE m

\* StrategyCalculator.find_nearest_strike_below
find_nearest_strike_below_strict(target_strike, available_strikes) ==
    LET below(strike) == strike < target_strike
        strikes_below == SelectSeq(available_strikes, below)
    IN  IF strikes_below = << >>
        THEN Raised("ValueError", "No available strikes below target strike")
        ELSE Returned(max(strikes_below))
find_nearest_strike_below(target_strike, available_strikes) ==
    IF available_strikes = << >>
    THEN Raised("ValueError", "No available strikes provided")
    ELSE IF target_strike <= 0
    THEN Raised("ValueError", "Target strike must be positive")
    ELSE LET at_or_below(strike) == strike <= target_strike
             strikes_below == SelectSeq(available_strikes, at_or_below)
         IN  IF strikes_below = << >>
             THEN Raised("ValueError", "No available strikes at or below target strike $"
                                       \o str_int(target_strike) \o ".00")
             ELSE Returned(max(strikes_below))

\* What process_symbol yields: its TradeResult, the order manager calls it made and
\* the spreads it handed to the order manager.
SpreadProcessed(results, orders, raised) ==
    [results |-> results, submits |-> Len(orders), raised |-> raised, orders |-> orders]

\* line 782: actual_spread_width < configured_width * 0.5
spread_width_too_narrow_never(actual_spread_width, configured_width) == FALSE
spread_width_too_narrow(actual_spread_width, configured_width) ==
    2 * actual_spread_width < configured_width

\* lines 778-845 of process_symbol: the width check, validate_spread_parameters and
\* order_manager.submit_order_with_error_handling, whose retry_order never raises
spread_checked_and_submitted(symbol, b, short_strike, long_strike) ==
    LET actual_spread_width == short_strike - long_strike
        expiration == calculate_expiration_date(b.today, b.config.expiration_offset_weeks)
        valid == SpreadParameters_validate(
                     [short_strike |-> short_strike, long_strike |-> long_strike,
                      spread_width |-> actual_spread_width,
                      expiration |-> expiration.result], b.today)
    IN  IF spread_width_too_narrow(actual_spread_width, b.config.spread_width)
        THEN SpreadProcessed(<<FailedResult(symbol,
                 "Actual spread width ($" \o str_int(actual_spread_width)
                 \o ".00) is too narrow compared to configured ($"
                 \o str_int(b.config.spread_width) \o ".00)")>>, << >>, FALSE)
        ELSE IF ~valid[1]
        THEN SpreadProcessed(<<FailedResult(symbol,
                 "Spread validation failed: Spread validation error: " \o valid[2][1])>>,
                 << >>, TRUE)
        ELSE SpreadProcessed(<<PassedThrough(symbol, b.submit.result)>>,
                 <<[short_strike |-> short_strike, long_strike |-> long_strike]>>, FALSE)

\* lines 652-776 of process_symbol: the option chain and the snapping of both strikes
spread_snapped(symbol, b, original_short_strike, original_long_strike) ==
    IF b.chain.kind = "raise"
    THEN SpreadProcessed(<<FailedResult(symbol, "Option chain unavailable: " \o b.chain.exc.msg)>>,
                         << >>, TRUE)
    ELSE LET available_strikes == sorted(b.chain.result)
             short == find_nearest_strike_below(original_short_strike, available_strikes)
         IN  IF available_strikes = << >>
             THEN SpreadProcessed(<<FailedResult(symbol,
                      "No option strikes available in option chain")>>, << >>, FALSE)
             ELSE IF short.kind = "raise"
             THEN SpreadProcessed(<<FailedResult(symbol,
                      "Cannot find suitable short strike: " \o short.exc.msg)>>, << >>, TRUE)
             ELSE LET long == find_nearest_strike_below(original_long_strike, available_strikes)
                  IN  IF long.kind = "raise"
                      THEN SpreadProcessed(<<FailedResult(symbol,
                               "Cannot find suitable long strike: " \o long.exc.msg)>>,
                               << >>, TRUE)
                      ELSE spread_checked_and_submitted(symbol, b, short.result, long.result)

\* lines 616-845 of process_symbol, from the point where calculate_short_strike has
\* been entered; a ValueError of a calculator reaches the handler at line 849
spread_after_price(symbol, b) ==
    LET short == calculate_short_strike(b.price.result, b.config.strike_offset_percent)
    IN  IF short.kind = "raise"
        THEN SpreadProcessed(<<FailedResult(symbol, "Data error: " \o short.exc.msg)>>, << >>, TRUE)
        ELSE LET long == calculate_long_strike(short.result, b.config.spread_width)
                 expiration == calculate_expiration_date(b.today,
                                                         b.config.expiration_offset_weeks)
             IN  IF long.kind = "raise"
                 THEN SpreadProcessed(<<FailedResult(symbol, "Data error: " \o long.exc.msg)>>,
                                      << >>, TRUE)
                 ELSE IF expiration.kind = "raise"
                 THEN SpreadProcessed(<<FailedResult(symbol,
                          "Data error: " \o expiration.exc.msg)>>, << >>, TRUE)
                 ELSE spread_snapped(symbol, b, short.result, long.result)

\* pcs: the keyword offset_dollars is not a parameter of calculate_short_strike, so
\* the call at lines 617-621 raises TypeError before the method is entered.
process_symbol(symbol, b) ==
    IF b.price.kind = "raise"
    THEN IF b.price.exc.type = "ValueError"
         THEN Processed(<<FailedResult(symbol, "Data error: " \o b.price.exc.msg)>>, 0, TRUE)
         ELSE Processed(<<FailedResult(symbol, unexpected_error(b.price.exc))>>, 0, TRUE)
    ELSE LET bound == bind_keywords("StrategyCalculator.calculate_short_strike",
                                    calculate_short_strike_keywords,
                                    calculate_short_strike_parameters)
         IN  IF bound.kind = "raise"
             THEN Processed(<<FailedResult(symbol, unexpected_error(bound.exc))>>, 0, TRUE)
             ELSE spread_after_price(symbol, b)

\* cs: OrderManager defines no submit_collar_order.
process_collar_symbol(symbol, b) ==
    LET f == FirstFailure(b.price, b.chain)
    IN  IF f.kind = "raise"
        THEN Processed(<<FailedResult(symbol, unexpected_error(f.exc))>>, 0, TRUE)
        ELSE Processed(<<FailedResult(symbol, unexpected_error(
                 [type |-> "AttributeError",
                  msg |-> "'OrderManager' object has no attribute 'submit_collar_order'"]))>>,
                 0, TRUE)

shares_of(position) == IF position = None THEN 0 ELSE position[1]

process_covered_call_symbol(symbol, b) ==
    IF b.position = None \/ b.position[1] < 100
    THEN Processed(<<FailedResult(symbol, "Insufficient shares: need 100, have "
                                          \o str_int(shares_of(b.position)))>>, 0, FALSE)
    ELSE PricedProcessor(symbol, b, "branched")

determine_phase(shares_owned) == IF shares_owned >= 100 THEN "cc" ELSE "csp"

wheel_submit_method(position) ==
    IF determine_phase(shares_of(position)) = "cc"
    THEN "submit_covered_call_order"
    ELSE "submit_cash_secured_put_order"

process_wheel_symbol(symbol, b) == PricedProcessor(symbol, b, "passed_through")

process_double_calendar_symbol(symbol, b) == PricedProcessor(symbol, b, "passed_through")
process_butterfly_symbol(symbol, b) == PricedProcessor(symbol, b, "passed_through")
process_married_put_symbol(symbol, b) == PricedProcessor(symbol, b, "branched")
process_long_straddle_symbol(symbol, b) == PricedProcessor(symbol, b, "branched")
process_iron_butterfly_symbol(symbol, b) == PricedProcessor(symbol, b, "branched")
process_short_strangle_symbol(symbol, b) == PricedProcessor(symbol, b, "branched")
process_iron_condor_symbol(symbol, b) == PricedProcessor(symbol, b, "branched")

(***************************************************************************)
(* LadderedCoveredCallCalculator (src/src/strategy/collar_strategy.py) and *)
(* the laddered processor.  A ladder is a sequence of legs                 *)
(* [leg |-> number, contracts |-> count]; expirations are left out.        *)
(***************************************************************************)
\* self.laddered_cc_calculator as TradingBot.initialize builds it from the Config defaults.
laddered_cc_calculator ==
    [coverage_ratio |-> laddered_coverage_ratio, num_legs |-> laddered_num_legs]

\* int((shares_owned * self.coverage_ratio) // 100), coverage_ratio in thousandths
calculate_total_contracts(self, shares_owned) ==
    (shares_owned * self.coverage_ratio) \div 100000

calculate_contracts_per_leg_even(self, shares_owned) ==
    calculate_total_contracts(self, shares_owned) \div self.num_legs
calculate_contracts_per_leg(self, shares_owned) ==
    LET total_contracts == calculate_total_contracts(self, shares_owned)
    IN  IF total_contracts < self.num_legs
        THEN (IF total_contracts > 0 THEN 1 ELSE 0)
        ELSE total_contracts \div self.num_legs

Min(a, b) == IF a < b THEN a ELSE b

\* lines 674-677: the last leg gets any remainder
leg_contracts_capped(self, i, contracts_per_leg, remaining_contracts) ==
    Min(contracts_per_leg, remaining_contracts)
leg_contracts(self, i, contracts_per_leg, remaining_contracts) ==
    IF i = self.num_legs THEN remaining_contracts
    ELSE Min(contracts_per_leg, remaining_contracts)

\* lines 669-683: the loop over the expirations, of which there are num_legs
RECURSIVE ladder_from(_, _, _, _, _)
ladder_from(self, i, contracts_per_leg, remaining_contracts, ladder) ==
    IF i > self.num_legs THEN ladder
    ELSE LET leg == leg_contracts(self, i, contracts_per_leg, remaining_contracts)
         IN  IF leg > 0
             THEN ladder_from(self, i + 1, contracts_per_leg, remaining_contracts - leg,
                              Append(ladder, [leg |-> i, contracts |-> leg]))
             ELSE ladder_from(self, i + 1, contracts_per_leg, remaining_contracts, ladder)

calculate_ladder(self, shares_owned) ==
    ladder_from(self, 1, calculate_contracts_per_leg(self, shares_owned),
                calculate_total_contracts(self, shares_owned), << >>)

leg_symbol(symbol, leg_num) == symbol \o "_L" \o str_int(leg_num)

\* One pass of the loop over the ladder: the leg's chain, strike and order.
process_leg(symbol, leg, leg_broker) ==
    LET f == StrikeSelection(leg_broker.chain)
    IN  IF f.kind = "raise"
        THEN Processed(<<TradeResult(leg_symbol(symbol, leg.leg), FALSE, None, Some(f.exc.msg))>>,
                       0, TRUE)
        ELSE Processed(<<PassedThrough(leg_symbol(symbol, leg.leg), leg_broker.submit.result)>>,
                       1, FALSE)

RECURSIVE process_legs(_, _, _, _)
process_legs(symbol, ladder, leg_brokers, i) ==
    IF i > Len(ladder) THEN Processed(<< >>, 0, FALSE)
    ELSE LET head == process_leg(symbol, ladder[i], leg_brokers[i])
             rest == process_legs(symbol, ladder, leg_brokers, i + 1)
         IN  Processed(head.results \o rest.results, head.submits + rest.submits,
                       head.raised \/ rest.raised)

process_laddered_cc_symbol(symbol, b) ==
    IF b.position = None \/ b.position[1] < 100
    THEN Processed(<<FailedResult(symbol, "Insufficient shares: need 100+, have "
                                          \o str_int(shares_of(b.position)))>>, 0, FALSE)
    ELSE IF b.price.kind = "raise"
    THEN Processed(<<FailedResult(symbol, unexpected_error(b.price.exc))>>, 0, TRUE)
    ELSE process_legs(symbol, calculate_ladder(laddered_cc_calculator, b.position[1]), b.legs, 1)

\* The legs the broker is asked about for a position: one per leg of the ladder.
ladder_length(position) ==
    IF position = None \/ position[1] < 100 THEN 0 ELSE Len(calculate_ladder(laddered_cc_calculator, position[1]))

(***************************************************************************)
(* TradingBot._validate_symbol.                                            *)
(***************************************************************************)
_validate_symbol_rejecting_fetch_failure(symbol, dry, price) ==
    IF symbol = "" THEN FALSE
    ELSE IF ~isupper(symbol) \/ ~isalpha(symbol) THEN FALSE
    ELSE IF Len(symbol) < 1 \/ Len(symbol) > 5 THEN FALSE
    ELSE IF dry THEN TRUE
    ELSE price.kind = "return" /\ ~(price.result <= 0)
_validate_symbol(symbol, dry, price) ==
    IF symbol = "" THEN FALSE
    ELSE IF ~isupper(symbol) \/ ~isalpha(symbol) THEN FALSE
    ELSE IF Len(symbol) < 1 \/ Len(symbol) > 5 THEN FALSE
    ELSE IF dry THEN TRUE
    ELSE IF price.kind = "return" THEN ~(price.result <= 0)
    ELSE TRUE

\* Whether _validate_symbol got as far as the price fetch (lines 465-500), and how
\* the fetch ended: "return", "raise", or "not fetched".
price_check(symbol, dry, price) ==
    IF symbol = "" \/ ~isupper(symbol) \/ ~isalpha(symbol) THEN "not fetched"
    ELSE IF Len(symbol) < 1 \/ Len(symbol) > 5 THEN "not fetched"
    ELSE IF dry THEN "not fetched"
    ELSE price.kind

(***************************************************************************)
(* TradingBot.execute_trading_cycle, one action per step of the method.    *)
(* The bot starts either as constructed (_initialized false) or with its   *)
(* components set up (_initialized true, as at trading_bot.py line 211).   *)
(***************************************************************************)
CycleInit ==
    /\ _initialized \in BOOLEAN
    /\ config \in Configs
    /\ cpc = "idle"
    /\ valid_symbols = << >>
    /\ invalid_symbols = << >>
    /\ trade_results = << >>
    /\ summary = NoSummary
    /\ cycle_error = None
    /\ submit_calls = 0
    /\ processed = << >>
    /\ price_checks = << >>

\* No bot: only the order manager is exercised.
CycleUnused ==
    /\ _initialized = FALSE
    /\ config = NoConfig
    /\ cpc = "idle"
    /\ valid_symbols = << >>
    /\ invalid_symbols = << >>
    /\ trade_results = << >>
    /\ summary = NoSummary
    /\ cycle_error = None
    /\ submit_calls = 0
    /\ processed = << >>
    /\ price_checks = << >>

\* lines 284-285
ExecuteNotInitialized ==
    /\ cpc = "idle"
    /\ ~_initialized
    /\ cycle_error' = Some([type |-> "RuntimeError",
                            msg |-> "Trading bot not initialized. Call initialize() first."])
    /\ cpc' = "raised"
    /\ UNCHANGED <<_initialized, config, price_checks, valid_symbols, invalid_symbols, trade_results,
                   summary, submit_calls, processed>>
    /\ UNCHANGED <<retry_vars, calc_vars>>

MarketStatusOutcomes ==
    {Returned(TRUE), Returned(FALSE), Raised("ConnectionError", "clock unavailable")}

\* lines 293-308: whatever is_market_open does, the cycle proceeds
after_market_check_uncaught(market) ==
    IF market.kind = "raise" THEN "raised" ELSE "validate"
after_market_check(market) == "validate"

\* lines 287-316
ExecuteStart(market) ==
    /\ cpc = "idle"
    /\ _initialized
    /\ cpc' = after_market_check(market)
    /\ cycle_error' = IF cpc' = "raised" THEN Some(market.exc) ELSE None
    /\ valid_symbols' = << >>
    /\ invalid_symbols' = << >>
    /\ UNCHANGED <<_initialized, config, price_checks, trade_results, summary, submit_calls, processed>>
    /\ UNCHANGED <<retry_vars, calc_vars>>

\* lines 318-322: one pass of the validation loop
ValidateNextSymbol(price) ==
    /\ cpc = "validate"
    /\ Len(valid_symbols) + Len(invalid_symbols) < Len(config.symbols)
    /\ LET symbol == config.symbols[Len(valid_symbols) + Len(invalid_symbols) + 1]
       IN  /\ IF _validate_symbol(symbol, dry_run, price)
              THEN /\ valid_symbols' = Append(valid_symbols, symbol)
                   /\ UNCHANGED invalid_symbols
              ELSE /\ invalid_symbols' = Append(invalid_symbols, symbol)
                   /\ UNCHANGED valid_symbols
           /\ price_checks' = Append(price_checks,
                                     [symbol |-> symbol, check |-> price_check(symbol, dry_run, price)])
    /\ UNCHANGED <<_initialized, config, cpc, trade_results, summary, cycle_error,
                   submit_calls, processed>>
    /\ UNCHANGED <<retry_vars, calc_vars>>

ValidationDone ==
    /\ cpc = "validate"
    /\ Len(valid_symbols) + Len(invalid_symbols) = Len(config.symbols)

\* lines 330-338
NoValidSymbols ==
    /\ ValidationDone
    /\ valid_symbols = << >>
    /\ summary' = ExecutionSummary(Len(config.symbols), 0, Len(config.symbols), << >>)
    /\ cpc' = "returned"
    /\ UNCHANGED <<_initialized, config, price_checks, valid_symbols, invalid_symbols, trade_results,
                   cycle_error, submit_calls, processed>>
    /\ UNCHANGED <<retry_vars, calc_vars>>

\* lines 340-346
BeginProcessing ==
    /\ ValidationDone
    /\ valid_symbols # << >>
    /\ trade_results' = << >>
    /\ cpc' = "process"
    /\ UNCHANGED <<_initialized, config, price_checks, valid_symbols, invalid_symbols, summary,
                   cycle_error, submit_calls, processed>>
    /\ UNCHANGED <<retry_vars, calc_vars>>

\* The symbol the processing loop is at (line 348).
CurrentSymbol == valid_symbols[Len(processed) + 1]

Processing ==
    /\ cpc = "process"
    /\ Len(processed) < Len(valid_symbols)

\* lines 359-363 and 381: the laddered results are flattened, any other is appended
collect(results_so_far, strategy, p) ==
    IF strategy = "lcc" THEN results_so_far \o p.results
    ELSE Append(results_so_far, p.results[1])

\* lines 348-381: the routed processor returned p
Collect(p) ==
    /\ trade_results' = collect(trade_results, config.strategy, p)
    /\ processed' = Append(processed, [symbol |-> CurrentSymbol, raised |-> p.raised,
                                       results |-> p.results])
    /\ submit_calls' = submit_calls + p.submits
    /\ UNCHANGED <<_initialized, config, price_checks, cpc, valid_symbols, invalid_symbols, summary,
                   cycle_error>>
    /\ UNCHANGED <<retry_vars, calc_vars>>

Broker(position, price, chain, submit) ==
    [position |-> position, price |-> price, chain |-> chain, submit |-> submit]

NoSubmit == [kind |-> "none"]

\* line 379 (the else branch of the routing) and process_symbol
ProcessSymbol ==
    /\ Processing
    /\ config.strategy \notin (Strategies \ {"pcs"})
    /\ \E price \in PriceOutcomes :
         Collect(process_symbol(CurrentSymbol, Broker(None, price, Returned("strikes"), NoSubmit)))

\* lines 353-354 and process_collar_symbol
ProcessCollarSymbol ==
    /\ Processing
    /\ config.strategy = "cs"
    /\ \E price \in PriceOutcomes, chain \in ChainOutcomes :
         Collect(process_collar_symbol(CurrentSymbol, Broker(None, price, chain, NoSubmit)))

\* lines 355-356 and process_covered_call_symbol
ProcessCoveredCallSymbol ==
    /\ Processing
    /\ config.strategy = "cc"
    /\ \E position \in Positions, price \in PriceOutcomes, chain \in ChainOutcomes,
          submit \in BrokerSubmitOutcomes(config.broker_type, "submit_covered_call_order") :
         Collect(process_covered_call_symbol(CurrentSymbol,
                                             Broker(position, price, chain, submit)))

\* lines 357-358 and process_wheel_symbol
ProcessWheelSymbol ==
    /\ Processing
    /\ config.strategy = "ws"
    /\ \E position \in Positions, price \in PriceOutcomes, chain \in ChainOutcomes :
         \E submit \in BrokerSubmitOutcomes(config.broker_type, wheel_submit_method(position)) :
            Collect(process_wheel_symbol(CurrentSymbol, Broker(position, price, chain, submit)))

LegBrokers(broker_type) ==
    { [chain |-> chain, submit |-> submit] :
        chain \in ChainOutcomes,
        submit \in BrokerSubmitOutcomes(broker_type, "submit_covered_call_order") }

\* lines 359-363 and process_laddered_cc_symbol
ProcessLadderedCcSymbol ==
    /\ Processing
    /\ config.strategy = "lcc"
    /\ \E position \in Positions, price \in PriceOutcomes :
         \E legs \in [1..ladder_length(position) -> LegBrokers(config.broker_type)] :
            Collect(process_laddered_cc_symbol(CurrentSymbol,
                        [position |-> position, price |-> price, legs |-> legs]))

\* lines 364-365 and process_double_calendar_symbol
ProcessDoubleCalendarSymbol ==
    /\ Processing
    /\ config.strategy = "dc"
    /\ \E price \in PriceOutcomes, chain \in ChainOutcomes,
          submit \in BrokerSubmitOutcomes(config.broker_type, "submit_double_calendar_order") :
         Collect(process_double_calendar_symbol(CurrentSymbol, Broker(None, price, chain, submit)))

\* lines 366-367 and process_butterfly_symbol
ProcessButterflySymbol ==
    /\ Processing
    /\ config.strategy = "bf"
    /\ \E price \in PriceOutcomes, chain \in ChainOutcomes,
          submit \in BrokerSubmitOutcomes(config.broker_type, "submit_butterfly_order") :
         Collect(process_butterfly_symbol(CurrentSymbol, Broker(None, price, chain, submit)))

\* lines 368-369 and process_married_put_symbol
ProcessMarriedPutSymbol ==
    /\ Processing
    /\ config.strategy = "mp"
    /\ \E price \in PriceOutcomes, chain \in ChainOutcomes,
          submit \in BrokerSubmitOutcomes(config.broker_type, "submit_married_put_order") :
         Collect(process_married_put_symbol(CurrentSymbol, Broker(None, price, chain, submit)))

\* lines 370-371 and process_long_straddle_symbol
ProcessLongStraddleSymbol ==
    /\ Processing
    /\ config.strategy = "ls"
    /\ \E price \in PriceOutcomes, chain \in ChainOutcomes,
          submit \in BrokerSubmitOutcomes(config.broker_type, "submit_long_straddle_order") :
         Collect(process_long_straddle_symbol(CurrentSymbol, Broker(None, price, chain, submit)))

\* lines 372-373 and process_iron_butterfly_symbol
ProcessIronButterflySymbol ==
    /\ Processing
    /\ config.strategy = "ib"
    /\ \E price \in PriceOutcomes, chain \in ChainOutcomes,
          submit \in BrokerSubmitOutcomes(config.broker_type, "submit_iron_butterfly_order") :
         Collect(process_iron_butterfly_symbol(CurrentSymbol, Broker(None, price, chain, submit)))

\* lines 374-375 and process_short_strangle_symbol
ProcessShortStrangleSymbol ==
    /\ Processing
    /\ config.strategy = "ss"
    /\ \E price \in PriceOutcomes, chain \in ChainOutcomes,
          submit \in BrokerSubmitOutcomes(config.broker_type, "submit_short_strangle_order") :
         Collect(process_short_strangle_symbol(CurrentSymbol, Broker(None, price, chain, submit)))

\* lines 376-377 and process_iron_condor_symbol
ProcessIronCondorSymbol ==
    /\ Processing
    /\ config.strategy = "ic"
    /\ \E price \in PriceOutcomes, chain \in ChainOutcomes,
          submit \in BrokerSubmitOutcomes(config.broker_type, "submit_iron_condor_order") :
         Collect(process_iron_condor_symbol(CurrentSymbol, Broker(None, price, chain, submit)))

\* An exception that escapes a processor.  Every processor catches Exception
\* around its body, so this is an error raised while a handler builds its
\* result; the unit tests drive the branch with a processor that raises.
EscapedExceptions == {[type |-> "MemoryError", msg |-> ""]}

\* line 408: the failed result joins the results collected so far
append_failed_alone(results_so_far, failed_result) == <<failed_result>>
append_failed(results_so_far, failed_result) == Append(results_so_far, failed_result)

\* lines 383-408: the orchestrator's own handler
ProcessorRaised(exc) ==
    /\ Processing
    /\ LET failed_result == FailedResult(CurrentSymbol, unexpected_error(exc))
       IN  /\ trade_results' = append_failed(trade_results, failed_result)
           /\ processed' = Append(processed, [symbol |-> CurrentSymbol, raised |-> TRUE,
                                              results |-> <<failed_result>>])
    /\ UNCHANGED <<_initialized, config, price_checks, cpc, valid_symbols, invalid_symbols, summary,
                   cycle_error, submit_calls>>
    /\ UNCHANGED <<retry_vars, calc_vars>>

successful_count(results) == Cardinality({ i \in 1..Len(results) : results[i].success })

\* lines 410-426
FinishCycle ==
    /\ cpc = "process"
    /\ Len(processed) = Len(valid_symbols)
    /\ summary' = ExecutionSummary(Len(config.symbols),
                                   successful_count(trade_results),
                                   Len(trade_results) - successful_count(trade_results),
                                   trade_results)
    /\ cpc' = "returned"
    /\ UNCHANGED <<_initialized, config, price_checks, valid_symbols, invalid_symbols, trade_results,
                   cycle_error, submit_calls, processed>>
    /\ UNCHANGED <<retry_vars, calc_vars>>

NextCycle ==
    \/ ExecuteNotInitialized
    \/ \E market \in MarketStatusOutcomes : ExecuteStart(market)
    \/ \E price \in PriceOutcomes : ValidateNextSymbol(price)
    \/ NoValidSymbols
    \/ BeginProcessing
    \/ ProcessSymbol
    \/ ProcessCollarSymbol
    \/ ProcessCoveredCallSymbol
    \/ ProcessWheelSymbol
    \/ ProcessLadderedCcSymbol
    \/ ProcessDoubleCalendarSymbol
    \/ ProcessButterflySymbol
    \/ ProcessMarriedPutSymbol
    \/ ProcessLongStraddleSymbol
    \/ ProcessIronButterflySymbol
    \/ ProcessShortStrangleSymbol
    \/ ProcessIronCondorSymbol
    \/ \E exc \in EscapedExceptions : ProcessorRaised(exc)
    \/ FinishCycle

InitRetry == RetryInit /\ CycleUnused /\ CalcUnused

SpecRetry == InitRetry /\ [][NextRetry]_vars

InitCycle == RetryInit /\ CycleInit /\ CalcUnused

SpecCycle == InitCycle /\ [][NextCycle]_vars

(***************************************************************************)
(* Properties of execute_trading_cycle (checked under SpecCycle).          *)
(***************************************************************************)
CycleReturned == cpc = "returned"

IsLegOf(name, symbol) == \E n \in 1..laddered_num_legs : name = leg_symbol(symbol, n)

RECURSIVE FlattenResults(_)
FlattenResults(ps) ==
    IF ps = << >> THEN << >> ELSE ps[1].results \o FlattenResults(Tail(ps))

SomeSymbolRaised == \E k \in 1..Len(processed) : processed[k].raised

\* C4: with dry_run = true no order-submission call of the broker is made
\* during execute_trading_cycle, whatever the strategy and the broker's
\* price, position and chain responses.
C4_DryRunNeverSubmits == dry_run => submit_calls = 0

C7_OnlyNotInitializedRaises ==
    /\ (cycle_error # None \/ cpc = "raised")
         => /\ ~_initialized
            /\ cpc = "raised"
            /\ cycle_error # None
            /\ cycle_error[1].type = "RuntimeError"
    /\ (_initialized /\ ~CycleReturned) => ENABLED NextCycle
    /\ CycleReturned => /\ _initialized
                    /\ summary.total_symbols = Len(config.symbols)

C7_Witness ==
    /\ CycleReturned
    /\ _initialized
    /\ ~dry_run
    /\ cycle_error = None
    /\ Len(processed) = 2
    /\ processed[1].raised
    /\ processed[2].raised
    /\ summary.failed_trades = 2

\* C8: every TradeResult placed in a summary satisfies: success = true
\* implies order_id is present, and success = false implies error_message is
\* present.
C8_ResultsCarryIdOrError ==
    \A i \in 1..Len(summary.trade_results) :
        LET r == summary.trade_results[i]
        IN  /\ r.success => r.order_id # None
            /\ ~r.success => r.error_message # None

\* C9: for every strategy other than the laddered covered call, the summary
\* holds exactly one TradeResult per configured symbol, so that
\* total_symbols = len(trade_results) = successful_trades + failed_trades.
C9_OneResultPerConfiguredSymbol ==
    (CycleReturned /\ config.strategy # "lcc")
    => /\ Len(summary.trade_results) = Len(config.symbols)
       /\ \A i \in 1..Len(summary.trade_results) :
            i <= Len(config.symbols) => summary.trade_results[i].symbol = config.symbols[i]
       /\ summary.total_symbols = Len(summary.trade_results)
       /\ summary.total_symbols = summary.successful_trades + summary.failed_trades

\* C10: under the laddered covered call strategy every valid symbol
\* contributes at least one TradeResult to the summary: one per ladder leg
\* named '<symbol>_L<leg number>', or a single failed result under the plain
\* symbol.
C10_EveryValidSymbolContributes ==
    (CycleReturned /\ config.strategy = "lcc")
    => \A k \in 1..Len(valid_symbols) :
         \E j \in 1..Len(summary.trade_results) :
            LET r == summary.trade_results[j]
            IN  \/ r.symbol = valid_symbols[k] /\ ~r.success
                \/ IsLegOf(r.symbol, valid_symbols[k])

\* C11: in non-dry-run mode a symbol of 1 to 5 uppercase letters whose price
\* fetch failed during validation is not rejected: it is put in valid_symbols
\* and, when the cycle returns, its strategy processor has run for it.
C11_FetchFailureNeverRejects ==
    \A i \in 1..Len(price_checks) :
        price_checks[i].check = "raise"
        => /\ ~dry_run
           /\ \E k \in 1..Len(valid_symbols) : valid_symbols[k] = price_checks[i].symbol
           /\ \A k \in 1..Len(invalid_symbols) : invalid_symbols[k] # price_checks[i].symbol
           /\ CycleReturned
                => \E k \in 1..Len(processed) : processed[k].symbol = price_checks[i].symbol

C11_Witness ==
    /\ CycleReturned
    /\ ~dry_run
    /\ price_checks = <<[symbol |-> "AA", check |-> "raise"]>>
    /\ valid_symbols = <<"AA">>
    /\ Len(processed) = 1
    /\ processed[1].symbol = "AA"
    /\ processed[1].results = <<TradeResult("AA", TRUE, Some("ord-1"), None)>>

(***************************************************************************)
(* LadderedCoveredCallCalculator.calculate_ladder                          *)
(* (src/src/strategy/collar_strategy.py), called on its own.               *)
(***************************************************************************)
MaxShareLots == 40      \* shares_owned ranges over 0, 50, ..., 50 * MaxShareLots
MaxLegs == 5            \* num_legs ranges over 1..MaxLegs

\* coverage_ratio in thousandths: 0.5, the default 0.667, and 1.0
LadderCoverageRatios == {500, 667, 1000}

LadderCalculators ==
    { [coverage_ratio |-> r, num_legs |-> n] : r \in LadderCoverageRatios, n \in 1..MaxLegs }

LadderCalls ==
    { [method |-> "calculate_ladder", self |-> c, shares_owned |-> 50 * k] :
        c \in LadderCalculators, k \in 0..MaxShareLots }

InitLadder ==
    /\ RetryInit
    /\ CycleUnused
    /\ call \in LadderCalls
    /\ ret = NoReturn

CalculateLadder ==
    /\ call.method = "calculate_ladder"
    /\ ret = NoReturn
    /\ ret' = Returned(calculate_ladder(call.self, call.shares_owned))
    /\ UNCHANGED <<call, retry_vars, cycle_vars>>

NextLadder == CalculateLadder

SpecLadder == InitLadder /\ [][NextLadder]_vars

LadderReturned == call.method = "calculate_ladder" /\ ret.kind = "return"

RECURSIVE SumContracts(_)
SumContracts(ladder) ==
    IF ladder = << >> THEN 0 ELSE ladder[1].contracts + SumContracts(Tail(ladder))

\* C12: the contracts of the legs returned by calculate_ladder sum exactly to
\* total_contracts = floor(shares_owned * coverage_ratio / 100).
C12_LadderConservation ==
    LadderReturned
    => SumContracts(ret.result) = (call.shares_owned * call.self.coverage_ratio) \div 100000

\* 1100 shares at ratio 1.0 over 5 legs: 11 contracts, the last leg takes the remainder
C12_Witness ==
    /\ LadderReturned
    /\ call.shares_owned = 1100
    /\ call.self = [coverage_ratio |-> 1000, num_legs |-> 5]
    /\ Len(ret.result) = 5
    /\ ret.result[5].contracts = 3
    /\ SumContracts(ret.result) = 11

Max(a, b) == IF a > b THEN a ELSE b

\* The allocation rule in closed form: leg i of n gets min(per_leg, what is left
\* after i - 1 legs of per_leg), the last leg gets all that is left.
StatedPerLeg(total, n) == IF total >= n THEN total \div n ELSE IF total > 0 THEN 1 ELSE 0

StatedLegContracts(total, n, i) ==
    LET per_leg == StatedPerLeg(total, n)
        left == Max(total - (i - 1) * per_leg, 0)
    IN  IF i = n THEN left ELSE Min(per_leg, left)

IsLegWithContracts(leg) == leg.contracts > 0

StatedLadder(total, n) ==
    SelectSeq([i \in 1..n |-> [leg |-> i, contracts |-> StatedLegContracts(total, n, i)]],
              IsLegWithContracts)

\* C13: calculate_ladder allocates by the stated rule: per_leg = total div
\* num_legs when total >= num_legs, else 1 when total > 0, else 0; each leg but
\* the last gets min(per_leg, remaining), the last leg the whole remainder, and
\* no leg with zero contracts appears; 1500 shares at 0.667 with 5 legs gives
\* five legs of 2.
C13_LadderFollowsStatedRule ==
    LadderReturned
    => /\ ret.result = StatedLadder((call.shares_owned * call.self.coverage_ratio) \div 100000,
                                    call.self.num_legs)
       /\ \A i \in 1..Len(ret.result) : ret.result[i].contracts > 0
       /\ (call.shares_owned = 1500 /\ call.self = [coverage_ratio |-> 667, num_legs |-> 5])
            => ret.result = [i \in 1..5 |-> [leg |-> i, contracts |-> 2]]

\* 200 shares at ratio 1.0 over 5 legs: two legs of one contract, three legs omitted
C13_Witness ==
    /\ LadderReturned
    /\ call.shares_owned = 200
    /\ call.self = [coverage_ratio |-> 1000, num_legs |-> 5]
    /\ ret.result = <<[leg |-> 1, contracts |-> 1], [leg |-> 2, contracts |-> 1]>>

(***************************************************************************)
(* Strike snapping: StrategyCalculator.find_nearest_strike_below            *)
(* (src/src/strategy/strategy_calculator.py) and CollarCalculator's         *)
(* find_nearest_strike_below / find_nearest_strike_above                   *)
(* (src/src/strategy/collar_strategy.py). Strikes and targets are whole    *)
(* dollars; the available strikes are a list, in any order.                *)
(***************************************************************************)
MaxStrikes == 3         \* available_strikes holds 0..MaxStrikes strikes

\* Python min() of a non-empty list
RECURSIVE min(_)
min(xs) == IF Len(xs) = 1 THEN xs[1]
           ELSE LET m == min(Tail(xs)) IN IF xs[1] < m THEN xs[1] ELSE m

CollarCalculator_find_nearest_strike_below(target, available_strikes) ==
    LET at_or_below(s) == s <= target
        strikes_below == SelectSeq(available_strikes, at_or_below)
    IN  IF strikes_below = << >>
        THEN Raised("ValueError", "No strikes available at or below $" \o str_int(target) \o ".0")
        ELSE Returned(max(strikes_below))

CollarCalculator_find_nearest_strike_above_farthest(target, available_strikes) ==
    LET at_or_above(s) == s >= target
        strikes_above == SelectSeq(available_strikes, at_or_above)
    IN  IF strikes_above = << >>
        THEN Raised("ValueError", "No strikes available at or above $" \o str_int(target) \o ".0")
        ELSE Returned(max(strikes_above))
CollarCalculator_find_nearest_strike_above(target, available_strikes) ==
    LET at_or_above(s) == s >= target
        strikes_above == SelectSeq(available_strikes, at_or_above)
    IN  IF strikes_above = << >>
        THEN Raised("ValueError", "No strikes available at or above $" \o str_int(target) \o ".0")
        ELSE Returned(min(strikes_above))

\* Strikes of an option chain are positive prices.
StrikeValues == {90, 95, 100, 105}
StrikeTargets == {-5, 0, 85, 90, 97, 105, 110}
StrikeMethods == {"StrategyCalculator.find_nearest_strike_below",
                  "CollarCalculator.find_nearest_strike_below",
                  "CollarCalculator.find_nearest_strike_above"}

StrikeCalls ==
    { [method |-> method, target |-> t, available_strikes |-> strikes, first |-> NoReturn] :
        method \in StrikeMethods, t \in StrikeTargets,
        strikes \in SeqsUpTo(StrikeValues, MaxStrikes) }

InitStrikes ==
    /\ RetryInit
    /\ CycleUnused
    /\ call \in StrikeCalls
    /\ ret = NoReturn

FindNearestStrikeBelow ==
    /\ call.method = "StrategyCalculator.find_nearest_strike_below"
    /\ ret = NoReturn
    /\ ret' = find_nearest_strike_below(call.target, call.available_strikes)
    /\ UNCHANGED <<call, retry_vars, cycle_vars>>

CollarFindNearestStrikeBelow ==
    /\ call.method = "CollarCalculator.find_nearest_strike_below"
    /\ ret = NoReturn
    /\ ret' = CollarCalculator_find_nearest_strike_below(call.target, call.available_strikes)
    /\ UNCHANGED <<call, retry_vars, cycle_vars>>

CollarFindNearestStrikeAbove ==
    /\ call.method = "CollarCalculator.find_nearest_strike_above"
    /\ ret = NoReturn
    /\ ret' = CollarCalculator_find_nearest_strike_above(call.target, call.available_strikes)
    /\ UNCHANGED <<call, retry_vars, cycle_vars>>

\* The caller snaps the returned strike once more against the same list.
SnapAgain ==
    /\ call.method \in StrikeMethods
    /\ ret.kind = "return"
    /\ call.first = NoReturn
    /\ call' = [call EXCEPT !.target = ret.result, !.first = ret]
    /\ ret' = CASE call.method = "StrategyCalculator.find_nearest_strike_below" ->
                     find_nearest_strike_below(ret.result, call.available_strikes)
                 [] call.method = "CollarCalculator.find_nearest_strike_below" ->
                     CollarCalculator_find_nearest_strike_below(ret.result, call.available_strikes)
                 [] OTHER ->
                     CollarCalculator_find_nearest_strike_above(ret.result, call.available_strikes)
    /\ UNCHANGED <<retry_vars, cycle_vars>>

NextStrikes ==
    \/ FindNearestStrikeBelow
    \/ CollarFindNearestStrikeBelow
    \/ CollarFindNearestStrikeAbove
    \/ SnapAgain

SpecStrikes == InitStrikes /\ [][NextStrikes]_vars

IsStrikeCall == call.method \in StrikeMethods
SnapsBelow == call.method \in {"StrategyCalculator.find_nearest_strike_below",
                               "CollarCalculator.find_nearest_strike_below"}
Available == { call.available_strikes[i] : i \in 1..Len(call.available_strikes) }

\* C14: snapping is idempotent: whenever nearest_below(x, S) is defined,
\* nearest_below(nearest_below(x, S), S) = nearest_below(x, S).
C14_SnappingBelowIsIdempotent ==
    (SnapsBelow /\ call.first # NoReturn)
    => /\ ret.kind = "return"
       /\ ret = call.first
       /\ ret.result = call.target

C14_Witness ==
    /\ call.method = "StrategyCalculator.find_nearest_strike_below"
    /\ call.available_strikes = <<105, 90, 95>>
    /\ call.first = Returned(95)
    /\ call.target = 95
    /\ ret = Returned(95)

\* C15: find_nearest_strike_below returns the greatest available strike <=
\* target, find_nearest_strike_above the least available strike >= target;
\* each raises, returning no strike, exactly when no available strike lies on
\* the required side; neither changes the list of available strikes.
C15_NearestStrikeOnTheRequiredSide ==
    /\ [](  (IsStrikeCall /\ ret # NoReturn /\ call.first = NoReturn)
            => IF SnapsBelow
               THEN /\ ret.kind = "raise" <=> ~\E s \in Available : s <= call.target
                    /\ ret.kind = "return"
                         => /\ ret.result \in Available
                            /\ ret.result <= call.target
                            /\ \A s \in Available : s <= call.target => s <= ret.result
               ELSE /\ ret.kind = "raise" <=> ~\E s \in Available : s >= call.target
                    /\ ret.kind = "return"
                         => /\ ret.result \in Available
                            /\ ret.result >= call.target
                            /\ \A s \in Available : s >= call.target => s >= ret.result )
    /\ [][IsStrikeCall => call'.available_strikes = call.available_strikes]_vars

C15_Witness ==
    /\ call.method = "CollarCalculator.find_nearest_strike_above"
    /\ call.available_strikes = <<105, 90, 100>>
    /\ call.target = 97
    /\ call.first = NoReturn
    /\ ret = Returned(100)

(***************************************************************************)
(* Expiration dates (src/src/strategy/strategy_calculator.py and            *)
(* src/src/strategy/collar_strategy.py). A date is a day number; day 0 is a *)
(* Monday, so that weekday() is the day number modulo 7 (4 = Friday).       *)
(***************************************************************************)
MaxFromDay == 6             \* from_date / execution_date ranges over days 0..MaxFromDay
MaxExpirationDays == 10     \* expiration_days, short_days, long_days range over 0..MaxExpirationDays
MaxOffsetWeeks == 2         \* offset_weeks ranges over -1..MaxOffsetWeeks

abs(n) == IF n < 0 THEN 0 - n ELSE n

\* calculate_expiration of CoveredCallCalculator; the methods of the same name of
\* the wheel, butterfly, married put, long straddle, iron butterfly, short
\* strangle and iron condor calculators have the same body.
calculate_expiration_friday_after(self, from_date) ==
    LET target == from_date + self.expiration_days
    IN  Returned(target + ((4 - weekday(target)) % 7))
calculate_expiration(self, from_date) ==
    LET target == from_date + self.expiration_days
        days_until_friday == (4 - weekday(target)) % 7
        friday_after == target + days_until_friday
        friday_before == friday_after - 7
    IN  IF weekday(target) = 4 THEN Returned(target)
        ELSE IF /\ friday_before >= from_date + 1
                /\ abs(friday_before - target) <= abs(friday_after - target)
        THEN Returned(friday_before)
        ELSE Returned(friday_after)

\* while target.weekday() >= 5: target += timedelta(days=1)
RECURSIVE past_weekend(_)
past_weekend(target) == IF weekday(target) >= 5 THEN past_weekend(target + 1) ELSE target

\* DoubleCalendarCalculator
calculate_short_expiration_on_target(self, from_date) ==
    Returned(from_date + self.short_days)
calculate_short_expiration(self, from_date) ==
    Returned(past_weekend(from_date + self.short_days))

calculate_long_expiration(self, from_date) ==
    Returned(past_weekend(from_date + self.long_days))

\* LadderedCoveredCallCalculator.calculate_expirations: num_legs consecutive Fridays
calculate_expirations(self, from_date) ==
    LET until == (4 - weekday(from_date)) % 7
        days_until_friday == IF until = 0 THEN 7 ELSE until
        first_friday == from_date + days_until_friday
    IN  Returned([i \in 1..self.num_legs |-> first_friday + 7 * (i - 1)])

DayOffsetCalculators ==
    {"CoveredCallCalculator", "WheelCalculator", "ButterflyCalculator", "MarriedPutCalculator",
     "LongStraddleCalculator", "IronButterflyCalculator", "ShortStrangleCalculator",
     "IronCondorCalculator"}

FromDates == 0..MaxFromDay

ExpirationCalls ==
    { [method |-> "calculate_expiration_date", execution_date |-> d, offset_weeks |-> w] :
        d \in FromDates, w \in (-1)..MaxOffsetWeeks }
    \cup { [method |-> "calculate_expiration", calculator |-> c,
            self |-> [expiration_days |-> n], from_date |-> d] :
            c \in DayOffsetCalculators, n \in 0..MaxExpirationDays, d \in FromDates }
    \cup { [method |-> "calculate_short_expiration", self |-> [short_days |-> n], from_date |-> d] :
            n \in 0..MaxExpirationDays, d \in FromDates }
    \cup { [method |-> "calculate_long_expiration", self |-> [long_days |-> n], from_date |-> d] :
            n \in 0..MaxExpirationDays, d \in FromDates }
    \cup { [method |-> "calculate_expirations", self |-> [num_legs |-> n], from_date |-> d] :
            n \in 1..MaxLegs, d \in FromDates }

InitExpiration ==
    /\ RetryInit
    /\ CycleUnused
    /\ call \in ExpirationCalls
    /\ ret = NoReturn

CalculateExpirationDate ==
    /\ call.method = "calculate_expiration_date"
    /\ ret = NoReturn
    /\ ret' = calculate_expiration_date(call.execution_date, call.offset_weeks)
    /\ UNCHANGED <<call, retry_vars, cycle_vars>>

CalculateExpiration ==
    /\ call.method = "calculate_expiration"
    /\ ret = NoReturn
    /\ ret' = calculate_expiration(call.self, call.from_date)
    /\ UNCHANGED <<call, retry_vars, cycle_vars>>

CalculateShortExpiration ==
    /\ call.method = "calculate_short_expiration"
    /\ ret = NoReturn
    /\ ret' = calculate_short_expiration(call.self, call.from_date)
    /\ UNCHANGED <<call, retry_vars, cycle_vars>>

CalculateLongExpiration ==
    /\ call.method = "calculate_long_expiration"
    /\ ret = NoReturn
    /\ ret' = calculate_long_expiration(call.self, call.from_date)
    /\ UNCHANGED <<call, retry_vars, cycle_vars>>

CalculateExpirations ==
    /\ call.method = "calculate_expirations"
    /\ ret = NoReturn
    /\ ret' = calculate_expirations(call.self, call.from_date)
    /\ UNCHANGED <<call, retry_vars, cycle_vars>>

NextExpiration ==
    \/ CalculateExpirationDate
    \/ CalculateExpiration
    \/ CalculateShortExpiration
    \/ CalculateLongExpiration
    \/ CalculateExpirations

SpecExpiration == InitExpiration /\ [][NextExpiration]_vars

ExpirationMethods ==
    {"calculate_expiration_date", "calculate_expiration", "calculate_short_expiration",
     "calculate_long_expiration", "calculate_expirations"}

ExpirationReturned == call.method \in ExpirationMethods /\ ret.kind = "return"

\* "today" of the call, and the target date the method computes from it
ExpirationToday ==
    IF call.method = "calculate_expiration_date" THEN call.execution_date ELSE call.from_date

ExpirationTarget ==
    CASE call.method = "calculate_expiration_date" -> call.execution_date + 7 * call.offset_weeks
      [] call.method = "calculate_expiration" -> call.from_date + call.self.expiration_days
      [] call.method = "calculate_short_expiration" -> call.from_date + call.self.short_days
      [] call.method = "calculate_long_expiration" -> call.from_date + call.self.long_days
      [] OTHER -> call.from_date

ProducedDates ==
    IF call.method = "calculate_expirations"
    THEN { ret.result[i] : i \in 1..Len(ret.result) }
    ELSE {ret.result}

\* C16 as stated: every expiration date produced by any strategy calculator is
\* a Friday, is on or after the computed target date, and is never before today.
C16_ExpirationIsFridayOnOrAfterTarget ==
    ExpirationReturned
    => \A d \in ProducedDates :
         /\ weekday(d) = 4
         /\ d >= ExpirationTarget
         /\ d >= ExpirationToday

\* C16, amended: no expiration date is before today; the dates of
\* calculate_expiration_date, of the day-offset calculators and of the ladder
\* are Fridays, those of the double calendar are the target moved past a
\* weekend; the dates of calculate_expiration_date and of the double calendar
\* are on or after the target, those of a day-offset calculator lie from 3 days
\* before the target (and then at least one day after today) to 6 days after it.
C16_ExpirationByKindOfCalculator ==
    ExpirationReturned
    => \A d \in ProducedDates :
         /\ d >= ExpirationToday
         /\ call.method \in {"calculate_expiration_date", "calculate_expiration",
                              "calculate_expirations"}
              => weekday(d) = 4
         /\ call.method = "calculate_expiration_date"
              => d >= ExpirationTarget /\ d <= ExpirationTarget + 6
         /\ call.method \in {"calculate_short_expiration", "calculate_long_expiration"}
              => /\ weekday(d) <= 4
                 /\ d >= ExpirationTarget
                 /\ \A e \in ExpirationTarget..(d - 1) : weekday(e) >= 5
         /\ call.method = "calculate_expiration"
              => /\ d >= ExpirationTarget - 3
                 /\ d <= ExpirationTarget + 6
                 /\ d < ExpirationTarget => d >= ExpirationToday + 1
         /\ call.method = "calculate_expirations" => d > ExpirationToday

\* a short leg two days from a Thursday: Saturday, moved to Monday
C16_Witness ==
    /\ call.method = "calculate_short_expiration"
    /\ call.from_date = 3
    /\ call.self.short_days = 2
    /\ ret = Returned(7)

\* The Friday strictly after a date
FridayAfter(d) == CHOOSE f \in (d + 1)..(d + 7) : weekday(f) = 4

\* C17: for the day-offset calculators, calculate_expiration(from_date) with
\* target = from_date + expiration_days returns the target when it is a Friday;
\* otherwise the Friday one week before the next Friday when that earlier
\* Friday is at least one day after from_date and is closer to the target;
\* otherwise the next Friday after the target.
C17_NearestFridayNotInThePast ==
    (call.method = "calculate_expiration" /\ ret # NoReturn)
    => LET target == call.from_date + call.self.expiration_days
           next == FridayAfter(target)
           earlier == next - 7
       IN  /\ ret.kind = "return"
           /\ ret.result =
                IF weekday(target) = 4 THEN target
                ELSE IF earlier >= call.from_date + 1 /\ target - earlier < next - target
                THEN earlier
                ELSE next

\* 5 days from a Monday: the target is a Saturday, the Friday before it is nearer
C17_Witness ==
    /\ call.method = "calculate_expiration"
    /\ call.calculator = "IronCondorCalculator"
    /\ call.from_date = 0
    /\ call.self.expiration_days = 5
    /\ ret = Returned(4)

\* C18: for offset_weeks >= 1, calculate_expiration_date returns the first
\* Friday on or after execution_date + offset_weeks weeks (1 week from a
\* Tuesday gives the Friday 10 days later); for offset_weeks <= 0 it raises and
\* returns no date.
C18_FridayOfTheOffsetWeek ==
    (call.method = "calculate_expiration_date" /\ ret # NoReturn)
    => IF call.offset_weeks <= 0
       THEN ret.kind = "raise" /\ ret.exc.type = "ValueError"
       ELSE LET target == call.execution_date + 7 * call.offset_weeks
            IN  /\ ret.kind = "return"
                /\ weekday(ret.result) = 4
                /\ ret.result >= target
                /\ \A d \in target..(ret.result - 1) : weekday(d) # 4
                /\ (weekday(call.execution_date) = 1 /\ call.offset_weeks = 1)
                     => ret.result = call.execution_date + 10

C18_Witness ==
    /\ call.method = "calculate_expiration_date"
    /\ call.execution_date = 1
    /\ call.offset_weeks = 1
    /\ ret = Returned(11)

(***************************************************************************)
(* The put credit spread processor on one symbol: the price, the configured *)
(* offsets, the option chain and the order manager's answer are the inputs. *)
(***************************************************************************)
SpreadPrices == {Returned(100), Raised("ValueError", "Price data unavailable")}
SpreadOffsetPercents == {5, 10}
SpreadWidths == {5, 10}
SpreadStrikes == {80, 85, 88, 92, 95}

\* date.today(): a Monday or a Friday
SpreadDays == {0, 4}

SpreadChains ==
    { Returned(q) : q \in SeqsUpTo(SpreadStrikes, MaxStrikes) }
    \cup {Raised("ValueError", "No options found")}

\* What retry_order hands back to submit_order_with_error_handling
SpreadSubmits ==
    {Returned(OrderResult(TRUE, Some("ord-1"), Some("accepted"), None)),
     Returned(OrderResult(FALSE, None, Some("max_retries_exceeded"),
                          Some("Failed after 3 attempts: rejected")))}

SpreadCalls ==
    { [method |-> "process_symbol", symbol |-> "SPY",
       b |-> [price |-> pr, chain |-> ch, submit |-> su, today |-> today,
              config |-> [strike_offset_percent |-> pct, spread_width |-> w,
                          expiration_offset_weeks |-> 1]]] :
        pr \in SpreadPrices, ch \in SpreadChains, su \in SpreadSubmits,
        pct \in SpreadOffsetPercents, w \in SpreadWidths, today \in SpreadDays }

InitSpread ==
    /\ RetryInit
    /\ CycleUnused
    /\ call \in SpreadCalls
    /\ ret = NoReturn

ProcessSpreadSymbol ==
    /\ call.method = "process_symbol"
    /\ ret = NoReturn
    /\ ret' = Returned(process_symbol(call.symbol, call.b))
    /\ UNCHANGED <<call, retry_vars, cycle_vars>>

NextSpread == ProcessSpreadSymbol

SpecSpread == InitSpread /\ [][NextSpread]_vars

SpreadReturned == call.method = "process_symbol" /\ ret.kind = "return"

\* The strikes of the chain at or below a target, and the greatest of them
StrikesAtOrBelow(target, chain) == { chain[i] : i \in 1..Len(chain) } \cap 0..target
Greatest(S) == CHOOSE x \in S : \A y \in S : y <= x

\* The targets the configuration asks for at a price
ShortTarget(b) == (b.price.result * (100 - b.config.strike_offset_percent)) \div 100
LongTarget(b) == ShortTarget(b) - b.config.spread_width

\* The chain holds a strike for both targets, and the two snapped strikes are
\* closer than half the configured width.
SnappedNarrow(b) ==
    /\ b.price.kind = "return"
    /\ b.chain.kind = "return"
    /\ StrikesAtOrBelow(LongTarget(b), b.chain.result) # {}
    /\ 2 * (Greatest(StrikesAtOrBelow(ShortTarget(b), b.chain.result))
            - Greatest(StrikesAtOrBelow(LongTarget(b), b.chain.result)))
       < b.config.spread_width

SubmittedOrders(p) == IF "orders" \in DOMAIN p THEN p.orders ELSE << >>

NoNarrowOrder(p, b) ==
    /\ p.submits = Len(SubmittedOrders(p))
    /\ \A i \in 1..Len(SubmittedOrders(p)) :
           2 * (SubmittedOrders(p)[i].short_strike - SubmittedOrders(p)[i].long_strike)
           >= b.config.spread_width

Rejected(p) ==
    /\ Len(p.results) = 1
    /\ ~p.results[1].success
    /\ p.submits = 0

RejectsNarrow(p, b) == NoNarrowOrder(p, b) /\ (SnappedNarrow(b) => Rejected(p))

\* C19: the put credit spread processor hands no spread to the order manager whose
\* snapped width is below half the configured width; such a symbol gets one failed
\* TradeResult and no order manager call. This holds of process_symbol as it runs,
\* and of its statements after the strike calculation (lines 624-845) on the same
\* inputs, where the width check of line 782 is.
C19_NarrowSpreadNeverSubmitted ==
    SpreadReturned
    => /\ RejectsNarrow(ret.result, call.b)
       /\ call.b.price.kind = "return"
          => RejectsNarrow(spread_after_price(call.symbol, call.b), call.b)

\* price 100, offset 5%, width 10: targets 95 and 85; the chain 88, 85 snaps to a
\* width of 3, which line 782 finds too narrow
C19_Witness ==
    /\ SpreadReturned
    /\ call.b.price = Returned(100)
    /\ call.b.config.strike_offset_percent = 5
    /\ call.b.config.spread_width = 10
    /\ call.b.chain = Returned(<<88, 85>>)
    /\ call.b.submit.result.success
    /\ SnappedNarrow(call.b)
    /\ Rejected(ret.result)
    /\ spread_after_price(call.symbol, call.b).results[1].error_message
       = Some("Actual spread width ($3.00) is too narrow compared to configured ($10.00)")

(***************************************************************************)
(* IronCondorCalculator.calculate_strikes and process_iron_condor_symbol.  *)
(* Prices, strikes and the spread width are whole dollars and the offsets  *)
(* whole percents of a price of 100, so that every target is a whole       *)
(* number. A calculator is built with offsets and a width above zero.      *)
(***************************************************************************)
MaxChainStrikes == 6

IronCondorCalculators ==
    { [put_spread_offset_percent |-> p, call_spread_offset_percent |-> c, spread_width |-> w] :
        p \in {3, 5}, c \in {3, 5}, w \in {5, 10} }

\* The default arguments of IronCondorCalculator.__init__
iron_condor_calculator ==
    [put_spread_offset_percent |-> 3, call_spread_offset_percent |-> 3, spread_width |-> 5]

IronCondorCalculator_find_nearest_strike_below(target, available_strikes) ==
    LET at_or_below(s) == s <= target
        strikes_below == SelectSeq(available_strikes, at_or_below)
    IN  IF strikes_below = << >>
        THEN Raised("ValueError", "No strikes available at or below $" \o str_int(target) \o ".0")
        ELSE Returned(max(strikes_below))

IronCondorCalculator_find_nearest_strike_either_side(target, available_strikes) ==
    LET strikes == { available_strikes[i] : i \in 1..Len(available_strikes) }
        distance(s) == IF s >= target THEN s - target ELSE target - s
    IN  Returned(CHOOSE s \in strikes :
                    \A t \in strikes : distance(s) < distance(t)
                                        \/ (distance(s) = distance(t) /\ s <= t))
IronCondorCalculator_find_nearest_strike_above(target, available_strikes) ==
    LET at_or_above(s) == s >= target
        strikes_above == SelectSeq(available_strikes, at_or_above)
    IN  IF strikes_above = << >>
        THEN Raised("ValueError", "No strikes available at or above $" \o str_int(target) \o ".0")
        ELSE Returned(min(strikes_above))

\* The long strikes and the ordering check, once both short strikes are found
calculate_long_strikes(self, put_short_strike, call_short_strike, available_strikes) ==
    LET put_long == IronCondorCalculator_find_nearest_strike_below(
                        put_short_strike - self.spread_width, available_strikes)
        call_long == IronCondorCalculator_find_nearest_strike_above(
                        call_short_strike + self.spread_width, available_strikes)
    IN  IF put_long.kind = "raise" THEN put_long
        ELSE IF call_long.kind = "raise" THEN call_long
        ELSE IF put_long.result >= put_short_strike
        THEN Raised("ValueError", "Put long strike must be below put short strike")
        ELSE IF call_long.result <= call_short_strike
        THEN Raised("ValueError", "Call long strike must be above call short strike")
        ELSE Returned(<<put_long.result, put_short_strike, call_short_strike, call_long.result>>)

\* IronCondorCalculator.calculate_strikes: (put_long, put_short, call_short, call_long)
calculate_strikes(self, current_price, available_strikes) ==
    IF available_strikes = << >> THEN Raised("ValueError", "No strikes available")
    ELSE LET put_short_target ==
                 (current_price * (100 - self.put_spread_offset_percent)) \div 100
             call_short_target ==
                 (current_price * (100 + self.call_spread_offset_percent)) \div 100
             put_short == IronCondorCalculator_find_nearest_strike_below(
                              put_short_target, available_strikes)
             call_short == IronCondorCalculator_find_nearest_strike_above(
                               call_short_target, available_strikes)
         IN  IF put_short.kind = "raise" THEN put_short
             ELSE IF call_short.kind = "raise" THEN call_short
             ELSE calculate_long_strikes(self, put_short.result, call_short.result,
                                         available_strikes)

\* list(set(xs)): each value once
RECURSIVE list_set(_)
list_set(xs) ==
    IF xs = << >> THEN << >>
    ELSE LET other(x) == x # xs[1]
         IN  <<xs[1]>> \o list_set(SelectSeq(Tail(xs), other))

\* What process_iron_condor_symbol yields: its TradeResult and the iron condors it
\* handed to broker_client.submit_iron_condor_order
CondorProcessed(results, orders, raised) ==
    [results |-> results, submits |-> Len(orders), raised |-> raised, orders |-> orders]

\* TradingBot.process_iron_condor_symbol with the strikes of the chain at hand
process_iron_condor_symbol_on_chain(self, symbol, b) ==
    IF b.price.kind = "raise"
    THEN CondorProcessed(<<FailedResult(symbol, unexpected_error(b.price.exc))>>, << >>, TRUE)
    ELSE IF b.chain.kind = "raise"
    THEN CondorProcessed(<<FailedResult(symbol, unexpected_error(b.chain.exc))>>, << >>, TRUE)
    ELSE LET available_strikes == sorted(list_set(b.chain.result))
             strikes == calculate_strikes(self, b.price.result, available_strikes)
         IN  IF strikes.kind = "raise"
             THEN CondorProcessed(<<FailedResult(symbol, unexpected_error(strikes.exc))>>,
                                  << >>, TRUE)
             ELSE IF b.submit.kind = "raise"
             THEN CondorProcessed(<<FailedResult(symbol, unexpected_error(b.submit.exc))>>,
                                  << >>, TRUE)
             ELSE CondorProcessed(<<Branched(symbol, b.submit.result)>>,
                                  <<strikes.result>>, FALSE)

CondorPrices == {100}
CondorStrikes == {85, 90, 92, 95, 97, 100, 103, 105, 108, 110, 115}

\* An option chain lists a put and a call at each of its strikes.
RECURSIVE PutsAndCalls(_)
PutsAndCalls(S) ==
    IF S = {} THEN << >>
    ELSE LET k == CHOOSE x \in S : \A y \in S : y <= x
         IN  <<k, k>> \o PutsAndCalls(S \ {k})

CondorChains ==
    { PutsAndCalls(S) : S \in { T \in SUBSET CondorStrikes : Cardinality(T) <= MaxChainStrikes } }

CondorCalls ==
    { [method |-> "calculate_strikes", self |-> self, current_price |-> price,
       available_strikes |-> sorted(list_set(chain))] :
        self \in IronCondorCalculators, price \in CondorPrices, chain \in CondorChains }
    \cup
    { [method |-> "process_iron_condor_symbol", self |-> iron_condor_calculator,
       symbol |-> "SPY", current_price |-> 100,
       b |-> [price |-> pr, chain |-> ch, submit |-> su]] :
        pr \in {Returned(100), Raised("ValueError", "Price data unavailable")},
        ch \in { Returned(q) : q \in CondorChains } \cup {Raised("ValueError", "No options found")},
        su \in BrokerSubmitOutcomes("alpaca", "submit_iron_condor_order")
               \cup BrokerSubmitOutcomes("tradier", "submit_iron_condor_order") }

InitCondor ==
    /\ RetryInit
    /\ CycleUnused
    /\ call \in CondorCalls
    /\ ret = NoReturn

CalculateStrikes ==
    /\ call.method = "calculate_strikes"
    /\ ret = NoReturn
    /\ ret' = calculate_strikes(call.self, call.current_price, call.available_strikes)
    /\ UNCHANGED <<call, retry_vars, cycle_vars>>

ProcessIronCondorOnChain ==
    /\ call.method = "process_iron_condor_symbol"
    /\ ret = NoReturn
    /\ ret' = Returned(process_iron_condor_symbol_on_chain(call.self, call.symbol, call.b))
    /\ UNCHANGED <<call, retry_vars, cycle_vars>>

NextCondor == CalculateStrikes \/ ProcessIronCondorOnChain

SpecCondor == InitCondor /\ [][NextCondor]_vars

\* put_long < put_short < current_price < call_short < call_long
CondorOrdered(strikes, current_price) ==
    /\ strikes[1] < strikes[2]
    /\ strikes[2] < current_price
    /\ current_price < strikes[3]
    /\ strikes[3] < strikes[4]

\* Some four strikes of the chain are ordered around the price.
OrderingCanBeMet(available_strikes, current_price) ==
    \E pl, ps, cs, cl \in { available_strikes[i] : i \in 1..Len(available_strikes) } :
        CondorOrdered(<<pl, ps, cs, cl>>, current_price)

CondorChainStrikes(b) ==
    IF b.price.kind = "return" /\ b.chain.kind = "return"
    THEN sorted(list_set(b.chain.result)) ELSE << >>

\* C20: when calculate_strikes returns, put_long < put_short < current_price <
\* call_short < call_long; on a price and strike set where no four strikes can be
\* ordered so it raises, and process_iron_condor_symbol then returns a failed
\* TradeResult without calling submit_iron_condor_order; an iron condor it does
\* submit has its strikes in that order.
C20_IronCondorStrikesOrdered ==
    /\ (call.method = "calculate_strikes" /\ ret.kind = "return")
       => CondorOrdered(ret.result, call.current_price)
    /\ (call.method = "calculate_strikes" /\ ret.kind # "none"
        /\ ~OrderingCanBeMet(call.available_strikes, call.current_price))
       => ret.kind = "raise"
    /\ (call.method = "process_iron_condor_symbol" /\ ret.kind = "return")
       => /\ \A i \in 1..Len(ret.result.orders) :
                CondorOrdered(ret.result.orders[i], call.current_price)
          /\ ~OrderingCanBeMet(CondorChainStrikes(call.b), call.current_price)
             => Rejected(ret.result)

\* a chain with both wings returns the four strikes
C20_Witness ==
    /\ call.method = "calculate_strikes"
    /\ call.self = iron_condor_calculator
    /\ call.available_strikes = <<90, 92, 97, 103, 108, 110>>
    /\ ret = Returned(<<92, 97, 103, 108>>)

(***************************************************************************)
(* ButterflyCalculator.calculate_strikes and                               *)
(* IronButterflyCalculator.calculate_strikes, in whole dollars.            *)
(***************************************************************************)
MaxButterflyStrikes == 4

\* min(available_strikes, key=lambda x: abs(x - target)): the first strike of the
\* list at the least distance
RECURSIVE nearest_from(_, _, _)
nearest_from(best, target, rest) ==
    IF rest = << >> THEN best
    ELSE nearest_from(IF abs(rest[1] - target) < abs(best - target) THEN rest[1] ELSE best,
                      target, Tail(rest))

ButterflyCalculator_find_nearest_strike(target, available_strikes) ==
    nearest_from(available_strikes[1], target, Tail(available_strikes))

\* ButterflyCalculator.calculate_strikes: (lower_strike, middle_strike, upper_strike)
ButterflyCalculator_calculate_strikes(self, current_price, available_strikes) ==
    IF available_strikes = << >>
    THEN Raised("ValueError", "min() arg is an empty sequence")
    ELSE LET middle_strike ==
                 ButterflyCalculator_find_nearest_strike(current_price, available_strikes)
             lower_strike == ButterflyCalculator_find_nearest_strike(
                                 middle_strike - self.wing_width, available_strikes)
             upper_strike == ButterflyCalculator_find_nearest_strike(
                                 middle_strike + self.wing_width, available_strikes)
             actual_lower_width == middle_strike - lower_strike
             actual_upper_width == upper_strike - middle_strike
             min_width == min(<<actual_lower_width, actual_upper_width>>)
         IN  IF abs(actual_lower_width - actual_upper_width) > 1
             THEN Returned(<<ButterflyCalculator_find_nearest_strike(
                                 middle_strike - min_width, available_strikes),
                             middle_strike,
                             ButterflyCalculator_find_nearest_strike(
                                 middle_strike + min_width, available_strikes)>>)
             ELSE Returned(<<lower_strike, middle_strike, upper_strike>>)

IronButterflyCalculator_find_nearest_strike(target, available_strikes) ==
    nearest_from(available_strikes[1], target, Tail(available_strikes))

\* lines 1314-1327: a wing that landed on the body is searched again outside it
wings_outside_middle(lower_strike, middle_strike, upper_strike, available_strikes) ==
    LET below(s) == s < middle_strike
        above(s) == s > middle_strike
        strikes_below == SelectSeq(available_strikes, below)
        strikes_above == SelectSeq(available_strikes, above)
    IN  IF lower_strike >= middle_strike /\ strikes_below = << >>
        THEN Raised("ValueError", "No strikes available below middle strike")
        ELSE IF upper_strike <= middle_strike /\ strikes_above = << >>
        THEN Raised("ValueError", "No strikes available above middle strike")
        ELSE Returned(<<IF lower_strike >= middle_strike THEN max(strikes_below)
                        ELSE lower_strike,
                        middle_strike,
                        IF upper_strike <= middle_strike THEN min(strikes_above)
                        ELSE upper_strike>>)

\* IronButterflyCalculator.calculate_strikes
IronButterflyCalculator_calculate_strikes(self, current_price, available_strikes) ==
    IF available_strikes = << >> THEN Raised("ValueError", "No strikes available")
    ELSE LET middle_strike ==
                 IronButterflyCalculator_find_nearest_strike(current_price, available_strikes)
         IN  wings_outside_middle(
                 IronButterflyCalculator_find_nearest_strike(
                     middle_strike - self.wing_width, available_strikes),
                 middle_strike,
                 IronButterflyCalculator_find_nearest_strike(
                     middle_strike + self.wing_width, available_strikes),
                 available_strikes)

ButterflyPrices == {98, 100, 103}
ButterflyStrikes == {90, 95, 97, 100, 105, 110}
ButterflyWingWidths == {5, 10}

\* available_strikes = sorted(list(set(...))) of the chain
ButterflyChains ==
    { sorted(q) : q \in { r \in SeqsUpTo(ButterflyStrikes, MaxButterflyStrikes) : Distinct(r) } }

ButterflyCalls ==
    { [method |-> meth, self |-> [wing_width |-> w], current_price |-> price,
       available_strikes |-> strikes] :
        meth \in {"ButterflyCalculator.calculate_strikes",
                  "IronButterflyCalculator.calculate_strikes"},
        w \in ButterflyWingWidths, price \in ButterflyPrices, strikes \in ButterflyChains }

InitButterfly ==
    /\ RetryInit
    /\ CycleUnused
    /\ call \in ButterflyCalls
    /\ ret = NoReturn

CalculateButterflyStrikes ==
    /\ call.method = "ButterflyCalculator.calculate_strikes"
    /\ ret = NoReturn
    /\ ret' = ButterflyCalculator_calculate_strikes(call.self, call.current_price,
                                                    call.available_strikes)
    /\ UNCHANGED <<call, retry_vars, cycle_vars>>

CalculateIronButterflyStrikes ==
    /\ call.method = "IronButterflyCalculator.calculate_strikes"
    /\ ret = NoReturn
    /\ ret' = IronButterflyCalculator_calculate_strikes(call.self, call.current_price,
                                                        call.available_strikes)
    /\ UNCHANGED <<call, retry_vars, cycle_vars>>

NextButterfly == CalculateButterflyStrikes \/ CalculateIronButterflyStrikes

SpecButterfly == InitButterfly /\ [][NextButterfly]_vars

ButterflyReturned ==
    /\ call.method \in {"ButterflyCalculator.calculate_strikes",
                         "IronButterflyCalculator.calculate_strikes"}
    /\ call.available_strikes # << >>
    /\ ret.kind = "return"

\* C21: whenever ButterflyCalculator.calculate_strikes or
\* IronButterflyCalculator.calculate_strikes returns (lower, middle, upper) for a
\* non-empty list of strikes, lower < middle < upper.
C21_WingsStrictlyOutsideMiddle ==
    ButterflyReturned => (ret.result[1] < ret.result[2] /\ ret.result[2] < ret.result[3])

(***************************************************************************)
(* The parameter validators. Dates are days relative to date.today().      *)
(***************************************************************************)
\* CollarParameters.validate
CollarParameters_validate(self, today) ==
    IF self.shares_owned < self.num_collars * 100
    THEN <<FALSE, Some("Need " \o str_int(self.num_collars * 100)
                       \o " shares but only own " \o str_int(self.shares_owned))>>
    ELSE IF self.put_strike >= self.current_price
    THEN <<FALSE, Some("Put strike $" \o str_float(self.put_strike)
                       \o " must be below current price $" \o str_float(self.current_price))>>
    ELSE IF self.call_strike <= self.current_price
    THEN <<FALSE, Some("Call strike $" \o str_float(self.call_strike)
                       \o " must be above current price $" \o str_float(self.current_price))>>
    ELSE IF self.put_strike >= self.call_strike
    THEN <<FALSE, Some("Put strike $" \o str_float(self.put_strike)
                       \o " must be below call strike $" \o str_float(self.call_strike))>>
    ELSE IF self.put_expiration < today
    THEN <<FALSE, Some("Put expiration must be in the future")>>
    ELSE IF self.call_expiration < today
    THEN <<FALSE, Some("Call expiration must be in the future")>>
    ELSE <<TRUE, None>>

\* CoveredCallParameters.validate
CoveredCallParameters_validate(self, today) ==
    IF self.shares_owned < self.num_contracts * 100
    THEN <<FALSE, Some("Need " \o str_int(self.num_contracts * 100)
                       \o " shares but only own " \o str_int(self.shares_owned))>>
    ELSE IF self.call_strike <= self.current_price
    THEN <<FALSE, Some("Call strike $" \o str_float(self.call_strike)
                       \o " must be above current price $" \o str_float(self.current_price))>>
    ELSE IF self.call_expiration < today
    THEN <<FALSE, Some("Call expiration must be in the future")>>
    ELSE <<TRUE, None>>

\* yesterday, today and a week from today
ValidatorExpirations == {0 - 1, 0, 7}

ValidatorCalls ==
    { [method |-> "OrderManager.validate_order", order |-> o, expirations |-> {o.expiration}] :
        o \in Orders }
    \cup
    { [method |-> "SpreadParameters.validate",
       self |-> [short_strike |-> 95, long_strike |-> long, spread_width |-> w, expiration |-> e],
       expirations |-> {e}] :
        long \in {90, 95}, w \in {5, 10}, e \in ValidatorExpirations }
    \cup
    { [method |-> "CollarParameters.validate",
       self |-> [shares_owned |-> sh, num_collars |-> 1, current_price |-> 100,
                 put_strike |-> put, call_strike |-> 105,
                 put_expiration |-> pe, call_expiration |-> ce],
       expirations |-> {pe, ce}] :
        sh \in {50, 100}, put \in {95, 100}, pe \in ValidatorExpirations,
        ce \in ValidatorExpirations }
    \cup
    { [method |-> "CoveredCallParameters.validate",
       self |-> [shares_owned |-> sh, num_contracts |-> 1, current_price |-> 100,
                 call_strike |-> cs, call_expiration |-> e],
       expirations |-> {e}] :
        sh \in {50, 100}, cs \in {100, 105}, e \in ValidatorExpirations }

InitValidators ==
    /\ RetryInit
    /\ CycleUnused
    /\ call \in ValidatorCalls
    /\ ret = NoReturn

ValidateOrder ==
    /\ call.method = "OrderManager.validate_order"
    /\ ret = NoReturn
    /\ ret' = Returned(validate_order(call.order))
    /\ UNCHANGED <<call, retry_vars, cycle_vars>>

ValidateSpreadParameters ==
    /\ call.method = "SpreadParameters.validate"
    /\ ret = NoReturn
    /\ ret' = Returned(SpreadParameters_validate(call.self, 0))
    /\ UNCHANGED <<call, retry_vars, cycle_vars>>

ValidateCollarParameters ==
    /\ call.method = "CollarParameters.validate"
    /\ ret = NoReturn
    /\ ret' = Returned(CollarParameters_validate(call.self, 0))
    /\ UNCHANGED <<call, retry_vars, cycle_vars>>

ValidateCoveredCallParameters ==
    /\ call.method = "CoveredCallParameters.validate"
    /\ ret = NoReturn
    /\ ret' = Returned(CoveredCallParameters_validate(call.self, 0))
    /\ UNCHANGED <<call, retry_vars, cycle_vars>>

NextValidators ==
    \/ ValidateOrder
    \/ ValidateSpreadParameters
    \/ ValidateCollarParameters
    \/ ValidateCoveredCallParameters

SpecValidators == InitValidators /\ [][NextValidators]_vars

ValidatorReturned ==
    /\ call.method \in {"OrderManager.validate_order", "SpreadParameters.validate",
                         "CollarParameters.validate", "CoveredCallParameters.validate"}
    /\ ret.kind = "return"

\* C22: every parameter validator rejects, with a reason, an expiration on or
\* before today.
C22_ExpirationNotInFutureRejected ==
    (ValidatorReturned /\ \E e \in call.expirations : e <= 0)
    => (~ret.result[1] /\ ret.result[2] # None)

(***************************************************************************)
(* The lifecycle of a TradingBot: __init__, then initialize(),             *)
(* execute_trading_cycle() and shutdown() in any order. call.history holds *)
(* the calls made so far with their outcomes, ret what the last one        *)
(* returned or raised. The body of an initialized cycle is the subject of  *)
(* SpecCycle; here a cycle either raises at its gate or runs.              *)
(***************************************************************************)
MaxLifecycleCalls == 4

\* initialize(): every step succeeds; authenticate() returns False (lines 112-114);
\* load_config raises FileNotFoundError before the logger exists (lines 80, 224)
InitializeOutcomes == {"ok", "auth_failed", "config_missing"}

\* shutdown(): what the cleanup inside its try block does. handler.flush() is called
\* on the logging handlers directly and raises what the stream's flush raises.
FlushOutcomes == {Returned(TRUE), Raised("BrokenPipeError", "[Errno 32] Broken pipe")}

LifecycleEvent(name, outcome) == [name |-> name, outcome |-> outcome]

\* self.logger is set once initialize() has loaded the configuration (line 83)
has_logger(history) ==
    \E k \in 1..Len(history) :
        history[k].name = "initialize" /\ history[k].outcome # "config_missing"

InitLifecycle ==
    /\ RetryInit
    /\ CycleUnused
    /\ call = [method |-> "TradingBot", history |-> << >>]
    /\ ret = NoReturn

LifecycleCall ==
    /\ call.method = "TradingBot"
    /\ Len(call.history) < MaxLifecycleCalls

\* TradingBot.initialize: _initialized is set at line 211, on the path that returns True
Initialize(outcome) ==
    /\ LifecycleCall
    /\ _initialized' = IF outcome = "ok" THEN TRUE ELSE _initialized
    /\ ret' = Returned(outcome = "ok")
    /\ call' = [call EXCEPT !.history = Append(@, LifecycleEvent("initialize", outcome))]
    /\ UNCHANGED <<config, cpc, valid_symbols, invalid_symbols, trade_results, summary,
                   cycle_error, submit_calls, processed, price_checks>>
    /\ UNCHANGED retry_vars

\* TradingBot.execute_trading_cycle: the gate of lines 284-285
ExecuteTradingCycle ==
    /\ LifecycleCall
    /\ cycle_error' = IF _initialized THEN None
                      ELSE Some([type |-> "RuntimeError",
                                 msg |-> "Trading bot not initialized. Call initialize() first."])
    /\ ret' = IF _initialized THEN Returned("ExecutionSummary")
              ELSE Raised("RuntimeError", "Trading bot not initialized. Call initialize() first.")
    /\ call' = [call EXCEPT !.history =
                    Append(@, LifecycleEvent("execute_trading_cycle",
                                             IF _initialized THEN "ran" ELSE "raised"))]
    /\ UNCHANGED <<_initialized, config, cpc, valid_symbols, invalid_symbols, trade_results,
                   summary, submit_calls, processed, price_checks>>
    /\ UNCHANGED retry_vars

\* TradingBot.shutdown: line 2472 is inside the try block, after the flush loop; the
\* handler of line 2477 logs the exception and shutdown returns None
shutdown(initialized, flush) ==
    IF flush.kind = "raise" THEN initialized ELSE FALSE

Shutdown(flush) ==
    /\ LifecycleCall
    /\ flush.kind = "raise" => has_logger(call.history)
    /\ _initialized' = shutdown(_initialized, flush)
    /\ ret' = Returned(None)
    /\ call' = [call EXCEPT !.history =
                    Append(@, LifecycleEvent("shutdown",
                                             IF flush.kind = "raise" THEN "error" ELSE "clean"))]
    /\ UNCHANGED <<config, cpc, valid_symbols, invalid_symbols, trade_results, summary,
                   cycle_error, submit_calls, processed, price_checks>>
    /\ UNCHANGED retry_vars

NextLifecycle ==
    \/ \E outcome \in InitializeOutcomes : Initialize(outcome)
    \/ ExecuteTradingCycle
    \/ \E flush \in FlushOutcomes : Shutdown(flush)

SpecLifecycle == InitLifecycle /\ [][NextLifecycle]_vars

\* initialize() returned True at some call before the k-th, with no shutdown since
InitializedBefore(history, k) ==
    \E i \in 1..(k - 1) :
        /\ history[i] = LifecycleEvent("initialize", "ok")
        /\ \A j \in (i + 1)..(k - 1) : history[j].name # "shutdown"

\* C23: execute_trading_cycle raises the not-initialized error whenever initialize()
\* has not returned true, and whenever shutdown() has returned since initialize()
\* last returned true; after shutdown() returns, _initialized is False.
C23_LifecycleGatesTrading ==
    call.method = "TradingBot"
    => /\ \A k \in 1..Len(call.history) :
              (/\ call.history[k].name = "execute_trading_cycle"
               /\ ~InitializedBefore(call.history, k))
              => call.history[k].outcome = "raised"
       /\ (Len(call.history) > 0 /\ call.history[Len(call.history)].name = "shutdown")
          => ~_initialized

(***************************************************************************)
(* The put credit spread processor on the paths to and around submission.  *)
(***************************************************************************)
\* The price is available, the chain holds a strike at or below each target and the
\* two snapped strikes are at least half the configured width apart.
SnappedWide(b) ==
    /\ b.price.kind = "return"
    /\ b.chain.kind = "return"
    /\ StrikesAtOrBelow(LongTarget(b), b.chain.result) # {}
    /\ 2 * (Greatest(StrikesAtOrBelow(ShortTarget(b), b.chain.result))
            - Greatest(StrikesAtOrBelow(LongTarget(b), b.chain.result)))
       >= b.config.spread_width

\* C24: when the price is available, the chain has a strike at or below each target,
\* the snapped width passes the 50% check and the broker accepts the order,
\* process_symbol submits the spread and returns a successful TradeResult with the
\* broker's order id and short_strike > long_strike > 0.
C24_AcceptedSpreadSucceeds ==
    (SpreadReturned /\ SnappedWide(call.b) /\ call.b.submit.result.success)
    => /\ Len(ret.result.results) = 1
       /\ ret.result.results[1].success
       /\ ret.result.results[1].order_id = call.b.submit.result.order_id
       /\ ret.result.submits = 1
       /\ \A i \in 1..Len(SubmittedOrders(ret.result)) :
              /\ SubmittedOrders(ret.result)[i].short_strike
                 > SubmittedOrders(ret.result)[i].long_strike
              /\ SubmittedOrders(ret.result)[i].long_strike > 0

\* The cause for which the chain gives no spread, as the processor words it
NoSpreadCause(b) ==
    IF b.chain.kind = "raise" THEN "Option chain unavailable"
    ELSE IF b.chain.result = << >> THEN "No option strikes available in option chain"
    ELSE IF StrikesAtOrBelow(ShortTarget(b), b.chain.result) = {}
    THEN "Cannot find suitable short strike"
    ELSE IF StrikesAtOrBelow(LongTarget(b), b.chain.result) = {}
    THEN "Cannot find suitable long strike"
    ELSE ""

NoSpreadInChain(b) == b.price.kind = "return" /\ NoSpreadCause(b) # ""

SkippedNamingCause(p, b) ==
    /\ Rejected(p)
    /\ p.results[1].error_message # None
    /\ Contains(p.results[1].error_message[1], NoSpreadCause(b))

\* C25: when the option chain is empty, the chain fetch fails, or no strike exists
\* at or below the short or the long target, process_symbol returns a failed
\* TradeResult naming the cause and calls neither the order manager nor the broker.
C25_NoSpreadInChainSkipsSymbol ==
    (SpreadReturned /\ NoSpreadInChain(call.b))
    => SkippedNamingCause(ret.result, call.b)

(***************************************************************************)
(* retry_order: dry-run, the place of the backoff sleeps, and exceptions   *)
(* raised by the broker call (checked under SpecRetry).                    *)
(***************************************************************************)
StartsWith(s, prefix) ==
    /\ Len(s) >= Len(prefix)
    /\ SubSeq(s, 1, Len(prefix)) = prefix

\* C26: in dry-run mode, retry_order on an order that passes validation, with
\* max_retries >= 1, returns at attempt 1 a success with status 'simulated' and
\* an order id starting with 'DRY-RUN-<symbol>-', after zero broker calls and
\* zero sleeps.
C26_DryRunSimulatesAtFirstAttempt ==
    (/\ rpc = "returned"
     /\ dry_run
     /\ validate_order(order)[1]
     /\ max_retries >= 1)
    => /\ attempt = 1
       /\ result.success
       /\ result.status = Some("simulated")
       /\ result.error_message = None
       /\ result.order_id # None
       /\ StartsWith(result.order_id[1], "DRY-RUN-" \o order.symbol \o "-")
       /\ calls = 0
       /\ sleeps = << >>
       /\ last_broker = NoBroker

C26_Witness ==
    /\ rpc = "returned"
    /\ dry_run
    /\ validate_order(order)[1]
    /\ max_retries = 3
    /\ attempt = 1
    /\ result.status = Some("simulated")
    /\ result.order_id = Some("DRY-RUN-" \o order.symbol \o "-timestamp")
    /\ calls = 0
    /\ sleeps = << >>

\* A failure after which retry_order goes on: a failed result without a terminal
\* keyword, or an exception raised by the broker call.
RetryableFailure(kind) == kind \in {"retryable", "raised"}

\* A step that sleeps does so for the attempt that has just failed.
SleepsOnlyAfterRetryableFailure ==
    (sleeps' # sleeps)
    => /\ attempt >= 1
       /\ Len(outcomes) = attempt
       /\ RetryableFailure(outcomes[attempt])
       /\ attempt < max_retries
       /\ Len(sleeps) = attempt - 1
       /\ sleeps' = Append(sleeps, pow2(attempt - 1))
       /\ attempt' = attempt
       /\ calls' = calls
       /\ outcomes' = outcomes

\* The step after a sleep begins the next attempt.
AttemptFollowsSleep ==
    (attempt >= 1 /\ Len(sleeps) = attempt)
    => /\ attempt' = attempt + 1
       /\ attempt' <= max_retries
       /\ sleeps' = sleeps

BackoffBounds ==
    /\ attempt <= max_retries
    /\ calls <= attempt
    /\ Len(outcomes) <= attempt
    /\ Len(sleeps) <= attempt
    /\ (attempt >= 1 /\ Len(sleeps) = attempt)
       => (rpc = "while" /\ attempt < max_retries)
    /\ (rpc = "returned" /\ attempt >= 1) => Len(sleeps) = attempt - 1
    /\ \A k \in 1..Len(sleeps) :
           /\ sleeps[k] = pow2(k - 1)
           /\ k < max_retries
           /\ RetryableFailure(outcomes[k])
    /\ \A k \in 1..Len(outcomes) :
           ~RetryableFailure(outcomes[k])
           => /\ k = Len(outcomes)
              /\ Len(sleeps) = k - 1
              /\ rpc = "returned"

\* C27: in every run of retry_order, a backoff sleep happens only directly after a
\* retryable failure of attempt n with n < max_retries, lasts 2^(n-1) seconds and
\* is followed by attempt n+1; the number of attempts never exceeds max_retries,
\* no sleep follows a success, a terminal failure or the last attempt, and at
\* return sleeps = attempts - 1 whenever at least one attempt was made.
C27_SleepsOnlyBetweenAttempts ==
    [][SleepsOnlyAfterRetryableFailure /\ AttemptFollowsSleep /\ BackoffBounds']_vars

C27_Witness ==
    /\ rpc = "returned"
    /\ ~dry_run
    /\ max_retries = 3
    /\ attempt = 3
    /\ outcomes = <<"retryable", "raised", "success">>
    /\ calls = 3
    /\ sleeps = <<1, 2>>
    /\ result.success

AllAttemptsRaised ==
    /\ Len(outcomes) >= 1
    /\ \A i \in 1..Len(outcomes) : outcomes[i] = "raised"

\* C28: a submission attempt that raises an exception is handled as a retryable
\* failure whatever the exception's message: retry_order does not return on it
\* while attempts remain, the next attempt is made after the backoff, and if
\* every attempt raises the result is 'max_retries_exceeded' after exactly
\* max_retries attempts with the last exception's message in the error.
C28_RaisedAttemptIsRetried ==
    /\ (last_broker.kind = "raise")
       => /\ outcomes[Len(outcomes)] = "raised"
          /\ last_error = Some(last_broker.exc.msg)
          /\ (Len(outcomes) < max_retries)
             => (rpc \in {"sleep", "while", "try"} /\ result = NoResult)
          /\ (rpc = "sleep") => (attempt = Len(outcomes) /\ attempt < max_retries)
          /\ (rpc = "returned")
             => /\ attempt = max_retries
                /\ calls = max_retries
                /\ result.success = FALSE
                /\ result.order_id = None
                /\ result.status = Some("max_retries_exceeded")
                /\ result.error_message # None
                /\ Contains(result.error_message[1],
                            "Last error: " \o last_broker.exc.msg)
    /\ \A k \in 1..(Len(outcomes) - 1) :
           (outcomes[k] = "raised")
           => (Len(sleeps) >= k /\ sleeps[k] = pow2(k - 1))
    /\ (rpc = "returned" /\ AllAttemptsRaised)
       => /\ Len(outcomes) = max_retries
          /\ Len(sleeps) = max_retries - 1
          /\ result.status = Some("max_retries_exceeded")

C28_Witness ==
    /\ rpc = "returned"
    /\ max_retries = 2
    /\ outcomes = <<"raised", "raised">>
    /\ last_broker = Raised("ConnectionError", "Insufficient funds")
    /\ sleeps = <<1>>
    /\ calls = 2
    /\ result = OrderResult(FALSE, None, Some("max_retries_exceeded"),
                            Some("Failed after 2 attempts. Last error: Insufficient funds"))

(***************************************************************************)
(* The counts of the ExecutionSummary (checked under SpecCycle).           *)
(***************************************************************************)
\* C29: in every ExecutionSummary returned by execute_trading_cycle,
\* successful_trades equals the number of entries of trade_results with
\* success = true, and successful_trades + failed_trades equals the length of
\* trade_results, including when some or all configured symbols fail symbol
\* validation.
C29_SummaryCountsMatchResults ==
    (cpc = "returned" /\ summary # NoSummary)
    => /\ summary.successful_trades = successful_count(summary.trade_results)
       /\ summary.successful_trades + summary.failed_trades
          = Len(summary.trade_results)

(***************************************************************************)
(* AlpacaClient.submit_iron_condor_order and submit_iron_butterfly_order   *)
(* (src/src/brokers/alpaca_client.py): four single-leg market orders sent  *)
(* one after the other through self.broker.submit_order.  While the method *)
(* runs, ret holds its frame: orders_submitted and, as history, the calls  *)
(* of self.broker.submit_order made so far with what each one gave.        *)
(***************************************************************************)
LegIdentifiers == {"7f3", "a01"}

\* self.broker.submit_order: an order with an identifier, nothing, or an exception
LegOutcomes ==
    { Returned(Some(i)) : i \in LegIdentifiers }
    \cup { Returned(None), Raised("ConnectionError", "socket closed") }

iron_condor_legs == <<"LongPut", "ShortPut", "ShortCall", "LongCall">>
iron_butterfly_legs == <<"LowerPut", "MiddlePut", "MiddleCall", "UpperCall">>

\* "|".join(orders_submitted)
RECURSIVE join_legs(_)
join_legs(parts) ==
    IF parts = << >> THEN ""
    ELSE IF Len(parts) = 1 THEN parts[1]
    ELSE parts[1] \o "|" \o join_legs(Tail(parts))

LegsFrame(orders_submitted, broker_calls) ==
    [kind |-> "legs", orders_submitted |-> orders_submitted, broker_calls |-> broker_calls]

LegsReturned(r, broker_calls) ==
    [kind |-> "return", result |-> r, broker_calls |-> broker_calls]

FourLegCalls ==
    { [method |-> m] : m \in {"submit_iron_condor_order", "submit_iron_butterfly_order"} }

InitLegs ==
    /\ RetryInit
    /\ CycleUnused
    /\ call \in FourLegCalls
    /\ ret = LegsFrame(<< >>, << >>)

\* one leg: create_order, submit_order, and the append when the result is truthy;
\* an exception goes to the handler of the method, which returns
submit_leg(frame, label, outcome) ==
    LET broker_calls == Append(frame.broker_calls, [label |-> label, outcome |-> outcome])
    IN  IF outcome.kind = "raise"
        THEN LegsReturned(OrderResult(FALSE, None, Some("error"), Some(outcome.exc.msg)),
                          broker_calls)
        ELSE LegsFrame(IF outcome.result # None
                       THEN Append(frame.orders_submitted,
                                   label \o ":" \o outcome.result[1])
                       ELSE frame.orders_submitted,
                       broker_calls)

\* the result built from orders_submitted after the fourth leg
four_leg_result(orders_submitted) ==
    IF Len(orders_submitted) = 4
    THEN OrderResult(TRUE, Some(join_legs(orders_submitted)), Some("submitted"), None)
    ELSE OrderResult(FALSE,
                     IF orders_submitted # << >> THEN Some(join_legs(orders_submitted))
                     ELSE None,
                     Some("partial"),
                     Some("Only " \o str_int(Len(orders_submitted)) \o "/4 legs submitted"))

SubmitIronCondorLeg(outcome) ==
    /\ call.method = "submit_iron_condor_order"
    /\ ret.kind = "legs"
    /\ Len(ret.broker_calls) < 4
    /\ ret' = submit_leg(ret, iron_condor_legs[Len(ret.broker_calls) + 1], outcome)
    /\ UNCHANGED <<call, retry_vars, cycle_vars>>

ReturnIronCondorResult ==
    /\ call.method = "submit_iron_condor_order"
    /\ ret.kind = "legs"
    /\ Len(ret.broker_calls) = 4
    /\ ret' = LegsReturned(four_leg_result(ret.orders_submitted), ret.broker_calls)
    /\ UNCHANGED <<call, retry_vars, cycle_vars>>

SubmitIronButterflyLeg(outcome) ==
    /\ call.method = "submit_iron_butterfly_order"
    /\ ret.kind = "legs"
    /\ Len(ret.broker_calls) < 4
    /\ ret' = submit_leg(ret, iron_butterfly_legs[Len(ret.broker_calls) + 1], outcome)
    /\ UNCHANGED <<call, retry_vars, cycle_vars>>

ReturnIronButterflyResult ==
    /\ call.method = "submit_iron_butterfly_order"
    /\ ret.kind = "legs"
    /\ Len(ret.broker_calls) = 4
    /\ ret' = LegsReturned(four_leg_result(ret.orders_submitted), ret.broker_calls)
    /\ UNCHANGED <<call, retry_vars, cycle_vars>>

NextLegs ==
    \/ \E outcome \in LegOutcomes : SubmitIronCondorLeg(outcome)
    \/ ReturnIronCondorResult
    \/ \E outcome \in LegOutcomes : SubmitIronButterflyLeg(outcome)
    \/ ReturnIronButterflyResult

SpecLegs == InitLegs /\ [][NextLegs]_vars

(***************************************************************************)
(* Properties of the four-leg submissions (checked under SpecLegs).        *)
(***************************************************************************)
LegLabels ==
    IF call.method = "submit_iron_condor_order" THEN iron_condor_legs
    ELSE iron_butterfly_legs

LegAccepted(broker_call) ==
    broker_call.outcome.kind = "return" /\ broker_call.outcome.result # None

RECURSIVE AcceptedLegs(_)
AcceptedLegs(broker_calls) ==
    IF broker_calls = << >> THEN 0
    ELSE (IF LegAccepted(broker_calls[1]) THEN 1 ELSE 0) + AcceptedLegs(Tail(broker_calls))

\* C30: submit_iron_condor_order and submit_iron_butterfly_order attempt all four
\* legs in a fixed order whatever the outcome of earlier legs, report success
\* exactly when all four legs were accepted, and otherwise report a failure whose
\* message gives the number of legs submitted out of 4 and whose order id names
\* the legs already placed.
C30_AllFourLegsAttempted ==
    /\ \A i \in 1..Len(ret.broker_calls) : ret.broker_calls[i].label = LegLabels[i]
    /\ (ret.kind = "return")
       => /\ Len(ret.broker_calls) = 4
          /\ ret.result.success <=> (AcceptedLegs(ret.broker_calls) = 4)
          /\ ~ret.result.success
             => /\ ret.result.error_message
                   = Some("Only " \o str_int(AcceptedLegs(ret.broker_calls))
                          \o "/4 legs submitted")
                /\ \A i \in 1..Len(ret.broker_calls) :
                       LegAccepted(ret.broker_calls[i])
                       => /\ ret.result.order_id # None
                          /\ Contains(ret.result.order_id[1],
                                      LegLabels[i] \o ":"
                                      \o ret.broker_calls[i].outcome.result[1])

====
